---- MODULE Spec2Model ----
(***************************************************************************)
(* Formation String Decoder of FormationService                            *)
(* (src/src/app/services/formation.service.ts).                            *)
(*                                                                         *)
(* A string is a sequence of one-character strings.  Indices handed to the *)
(* string helpers are 0-based, as in the TypeScript source, so that the    *)
(* index arithmetic of the source can be written down unchanged.           *)
(***************************************************************************)
EXTENDS Integers, Sequences, FiniteSets, TLC

VARIABLES formationString, sections, pc, firstVehicle, travelDirection,
          decodeLog, lastApiResponse, currentStopIndex, currentFormation,
          pending, selectedStop, loopSegment, loopBracketContent, requests,
          loadingCount, loading

(* The fields of FormationService and the requests it has in flight;       *)
(* selectedStop is the index of the latest updateSelectedStop call on the  *)
(* stored response, -1 when there is none.                                 *)
serviceVars ==
  <<lastApiResponse, currentStopIndex, currentFormation, pending, selectedStop>>

(* segment and bracketContent of processSegment's bracket loop; the HTTP   *)
(* requests that pass the interceptors; the fields of LoadingInterceptor.  *)
loopAndHttpVars ==
  <<loopSegment, loopBracketContent, requests, loadingCount, loading>>

vars == <<formationString, sections, pc, firstVehicle, travelDirection,
          decodeLog, lastApiResponse, currentStopIndex, currentFormation,
          pending, selectedStop, loopSegment, loopBracketContent, requests,
          loadingCount, loading>>

(***************************************************************************)
(* Bounds of the checked input space.                                      *)
(***************************************************************************)
MaxPieces == 4

(***************************************************************************)
(* String helpers: the methods of String.prototype the decoder uses.       *)
(***************************************************************************)
Null == <<"null">>

Upper == {"A", "B", "C", "D", "E", "F", "G", "H", "I", "J", "K", "L", "M",
          "N", "O", "P", "Q", "R", "S", "T", "U", "V", "W", "X", "Y", "Z"}

Whitespace == {" "}

Substring(s, a, b) == SubSeq(s, a + 1, b)

SubstringFrom(s, a) == SubSeq(s, a + 1, Len(s))

CharAt(s, i) == s[i + 1]

StartsWith(s, p) == Len(p) <= Len(s) /\ SubSeq(s, 1, Len(p)) = p

EndsWith(s, p) == Len(p) <= Len(s) /\ SubSeq(s, Len(s) - Len(p) + 1, Len(s)) = p

MatchAt(s, p, i) == i + Len(p) <= Len(s) /\ SubSeq(s, i + 1, i + Len(p)) = p

IndexOfFrom(s, p, from) ==
  LET hits == {i \in from..(Len(s) - Len(p)) : MatchAt(s, p, i)}
  IN  IF hits = {} THEN -1 ELSE CHOOSE i \in hits : \A j \in hits : i <= j

IndexOf(s, p) == IndexOfFrom(s, p, 0)

Includes(s, p) == \E i \in 0..(Len(s) - Len(p)) : MatchAt(s, p, i)

RECURSIVE TrimStart(_)
TrimStart(s) ==
  IF s # <<>> /\ Head(s) \in Whitespace THEN TrimStart(Tail(s)) ELSE s

RECURSIVE TrimEnd(_)
TrimEnd(s) ==
  IF s # <<>> /\ s[Len(s)] \in Whitespace
    THEN TrimEnd(SubSeq(s, 1, Len(s) - 1))
    ELSE s

Trim(s) == TrimEnd(TrimStart(s))

(* String.prototype.split on a class of one-character separators *)
RECURSIVE SplitOn(_, _, _)
SplitOn(s, seps, cur) ==
  IF s = <<>> THEN <<cur>>
  ELSE IF Head(s) \in seps THEN <<cur>> \o SplitOn(Tail(s), seps, <<>>)
  ELSE SplitOn(Tail(s), seps, Append(cur, Head(s)))

(***************************************************************************)
(* Static tables of FormationService                                       *)
(***************************************************************************)
WAGON_TYPES ==
  << <<"1">>, <<"2">>, <<"1", "2">>, <<"C", "C">>, <<"F", "A">>, <<"W", "L">>,
     <<"W", "R">>, <<"W", "1">>, <<"W", "2">>, <<"L", "K">>, <<"D">>, <<"K">>,
     <<"X">> >>

STATUS_CHARS == <<"-", ">", "=", "%">>

(* Object.entries(WAGON_TYPE_MAPPING): the integer-like keys '1', '2', '12' *)
(* come first in ascending numeric order, then the other keys in insertion  *)
(* order.                                                                   *)
WAGON_TYPE_MAPPING ==
  << [code |-> <<"1">>,      type |-> "first-class"],
     [code |-> <<"2">>,      type |-> "second-class"],
     [code |-> <<"1", "2">>, type |-> "first-and-second-class"],
     [code |-> <<"L", "K">>, type |-> "locomotive"],
     [code |-> <<"C", "C">>, type |-> "couchette"],
     [code |-> <<"F", "A">>, type |-> "second-class"],
     [code |-> <<"F", "Z">>, type |-> "second-class"],
     [code |-> <<"W", "L">>, type |-> "sleeper"],
     [code |-> <<"W", "R">>, type |-> "restaurant"],
     [code |-> <<"W", "1">>, type |-> "restaurant-first"],
     [code |-> <<"W", "2">>, type |-> "restaurant-second"],
     [code |-> <<"D">>,      type |-> "baggage"],
     [code |-> <<"K">>,      type |-> "classless"],
     [code |-> <<"X">>,      type |-> "parked"] >>

TYPE_LABELS ==
  << [type |-> "locomotive", label |-> "Locomotive"],
     [type |-> "first-class", label |-> "1st Class Coach"],
     [type |-> "second-class", label |-> "2nd Class Coach"],
     [type |-> "first-and-second-class", label |-> "1st & 2nd Class Coach"],
     [type |-> "couchette", label |-> "Couchette Compartments"],
     [type |-> "sleeper", label |-> "Sleeping Compartments"],
     [type |-> "restaurant", label |-> "2nd Class Coach"],
     [type |-> "restaurant-first", label |-> "1st Class Coach"],
     [type |-> "restaurant-second", label |-> "2nd Class Coach"],
     [type |-> "baggage", label |-> "Luggage Coach"],
     [type |-> "classless", label |-> "Classless Coach"],
     [type |-> "parked", label |-> "Parked Vehicle"],
     [type |-> "wagon", label |-> "Coach"] >>

OFFER_MAPPING ==
  << [code |-> <<"B", "H", "P">>, label |-> "Wheelchair Spaces", icon |-> "wheelchair"],
     [code |-> <<"B", "Z">>, label |-> "Business Zone", icon |-> "business"],
     [code |-> <<"F", "Z">>, label |-> "Family Zone", icon |-> "family"],
     [code |-> <<"K", "W">>, label |-> "Stroller Platform", icon |-> "stroller"],
     [code |-> <<"L", "A">>, label |-> "Luggage", icon |-> "luggage"],
     [code |-> <<"N", "F">>, label |-> "Low Floor Access", icon |-> "accessible"],
     [code |-> <<"V", "H">>, label |-> "Bike Hooks", icon |-> "bicycle"],
     [code |-> <<"V", "R">>, label |-> "Bike Hooks Reservation Required",
      icon |-> "bicycle-reserved"],
     [code |-> <<"W", "L">>, label |-> "Sleeping Compartments", icon |-> "sleep"],
     [code |-> <<"C", "C">>, label |-> "Couchette Compartments", icon |-> "couchette"] >>

CLOSED == "Closed"
GROUP_BOARDING == "Group boarding"
RESERVED_FOR_TRANSIT == "Reserved for transit"
UNSERVICED == "Open but unserviced"

Undefined == "undefined"

(***************************************************************************)
(* Tokenizer                                                               *)
(***************************************************************************)
Token(type, value, position) ==
  [type |-> type, value |-> value, position |-> position]

isPotentialWagonToken(token) ==
  \/ \E k \in 1..Len(STATUS_CHARS) : StartsWith(token, <<STATUS_CHARS[k]>>)
  \/ \E k \in 1..Len(WAGON_TYPES) : Includes(token, WAGON_TYPES[k])

createToken(value, position) ==
  IF StartsWith(value, <<"@">>) /\ Len(value) > 1
    THEN Token("SECTOR", value, position)
  ELSE IF value = <<"F">>
    THEN Token("FICTITIOUS_WAGON", value, position)
  ELSE IF isPotentialWagonToken(value)
    THEN Token("VEHICLE", value, position)
  ELSE Token("UNKNOWN", value, position)

(* The token type of the one-character structural tokens. *)
StructuralType ==
  [c \in {"[", "]", "(", ")", ",", "\\"} |->
     CASE c = "[" -> "BRACKET_OPEN"
       [] c = "]" -> "BRACKET_CLOSE"
       [] c = "(" -> "PARENTHESIS_OPEN"
       [] c = ")" -> "PARENTHESIS_CLOSE"
       [] c = "," -> "COMMA"
       [] c = "\\" -> "BACKSLASH"]

(* One iteration of the character loop; i is the loop index. *)
RECURSIVE tokenizeLoop(_, _, _, _, _)
tokenizeLoop(str, i, tokens, currentToken, position) ==
  IF i >= Len(str)
    THEN IF currentToken # <<>>
           THEN Append(tokens, createToken(currentToken, position))
           ELSE tokens
    ELSE
      LET char == CharAt(str, i)
          flushed == IF currentToken # <<>>
                       THEN Append(tokens, createToken(currentToken, position))
                       ELSE tokens
          fpos == IF currentToken # <<>> THEN position + 1 ELSE position
      IN  IF char = "@"
            THEN LET letter == i + 1 < Len(str) /\ CharAt(str, i + 1) \in Upper
                     sectorToken == IF letter THEN <<"@", CharAt(str, i + 1)>>
                                              ELSE <<"@">>
                     ni == IF letter THEN i + 1 ELSE i
                 IN  tokenizeLoop(str, ni + 1,
                                  Append(flushed, Token("SECTOR", sectorToken, fpos)),
                                  <<>>, fpos + 1)
          ELSE IF char \in DOMAIN StructuralType
            THEN tokenizeLoop(str, i + 1,
                              Append(flushed, Token(StructuralType[char], <<char>>, fpos)),
                              <<>>, fpos + 1)
          ELSE IF char = "F" /\ currentToken = <<>>
            THEN tokenizeLoop(str, i + 1,
                              Append(tokens, Token("FICTITIOUS_WAGON", <<"F">>, position)),
                              currentToken, position + 1)
          ELSE tokenizeLoop(str, i + 1, tokens, Append(currentToken, char), position)

tokenizeFormationString(str) == tokenizeLoop(str, 0, <<>>, <<>>, 0)

(***************************************************************************)
(* Bracket extractor                                                       *)
(***************************************************************************)
RECURSIVE extractLoop(_, _, _, _, _, _)
extractLoop(str, openChar, closeChar, i, depth, start) ==
  IF i >= Len(str) THEN Null
  ELSE IF CharAt(str, i) = openChar
    THEN extractLoop(str, openChar, closeChar, i + 1, depth + 1,
                     IF depth = 0 THEN i + 1 ELSE start)
  ELSE IF CharAt(str, i) = closeChar
    THEN IF depth - 1 = 0 /\ start # -1
           THEN Substring(str, start, i)
           ELSE extractLoop(str, openChar, closeChar, i + 1, depth - 1, start)
  ELSE extractLoop(str, openChar, closeChar, i + 1, depth, start)

extractBracketContent(str, openChar, closeChar) ==
  extractLoop(str, openChar, closeChar, 0, 0, -1)

(***************************************************************************)
(* Vehicle token decoder                                                   *)
(***************************************************************************)
(* parseWagonStatus with the other statuses added to Closed *)
parseWagonStatusClosedNotExclusive(token) ==
  (IF StartsWith(token, <<"-">>) \/ Includes(token, <<"(", "-">>)
        \/ Includes(token, <<"@", "-">>)
     THEN <<CLOSED>> ELSE <<>>)
  \o (IF Includes(token, <<">">>) THEN <<GROUP_BOARDING>> ELSE <<>>)
  \o (IF Includes(token, <<"=">>) THEN <<RESERVED_FOR_TRANSIT>> ELSE <<>>)
  \o (IF Includes(token, <<"%">>) THEN <<UNSERVICED>> ELSE <<>>)

parseWagonStatus(token) ==
  IF StartsWith(token, <<"-">>) \/ Includes(token, <<"(", "-">>)
       \/ Includes(token, <<"@", "-">>)
    THEN <<CLOSED>>
    ELSE (IF StartsWith(token, <<">">>) \/ Includes(token, <<">">>)
            THEN <<GROUP_BOARDING>> ELSE <<>>)
         \o (IF StartsWith(token, <<"=">>) \/ Includes(token, <<"=">>)
               THEN <<RESERVED_FOR_TRANSIT>> ELSE <<>>)
         \o (IF StartsWith(token, <<"%">>) \/ Includes(token, <<"%">>)
               THEN <<UNSERVICED>> ELSE <<>>)

(* Object.entries(...).sort(([a], [b]) => b.length - a.length): a stable   *)
(* sort, longest code first.                                               *)
RECURSIVE SortByCodeLength(_, _)
SortByCodeLength(entries, len) ==
  IF len = 0 THEN <<>>
  ELSE SelectSeq(entries, LAMBDA e : Len(e.code) = len)
         \o SortByCodeLength(entries, len - 1)

MaxCodeLength(entries) ==
  CHOOSE n \in {Len(entries[k].code) : k \in 1..Len(entries)} :
    \A k \in 1..Len(entries) : Len(entries[k].code) <= n

sortedEntries ==
  SortByCodeLength(WAGON_TYPE_MAPPING, MaxCodeLength(WAGON_TYPE_MAPPING))

(* new RegExp(`^${code}(?:[:#,]|$)`).test(token) *)
AnchoredCode(token, code) ==
  /\ StartsWith(token, code)
  /\ \/ Len(token) = Len(code)
     \/ CharAt(token, Len(code)) \in {":", "#", ","}

(* determineWagonType without the loop of anchored matches. *)
determineWagonTypeEmbeddedOnly(token) ==
  LET embedded == {k \in 1..Len(sortedEntries) :
                     Includes(token, sortedEntries[k].code)}
      First(S) == CHOOSE k \in S : \A j \in S : k <= j
  IN  IF embedded # {} THEN sortedEntries[First(embedded)].type
      ELSE "wagon"

determineWagonType(token) ==
  LET anchored == {k \in 1..Len(sortedEntries) :
                     AnchoredCode(token, sortedEntries[k].code)}
      embedded == {k \in 1..Len(sortedEntries) :
                     Includes(token, sortedEntries[k].code)}
      First(S) == CHOOSE k \in S : \A j \in S : k <= j
  IN  IF anchored # {} THEN sortedEntries[First(anchored)].type
      ELSE IF embedded # {} THEN sortedEntries[First(embedded)].type
      ELSE "wagon"

IsStatusChar(c) == \E k \in 1..Len(STATUS_CHARS) : STATUS_CHARS[k] = c

(* while (statusChars < token.length && STATUS_CHARS.includes(token[statusChars])) *)
RECURSIVE LeadingStatusChars(_, _)
LeadingStatusChars(token, statusChars) ==
  IF statusChars < Len(token) /\ IsStatusChar(CharAt(token, statusChars))
    THEN LeadingStatusChars(token, statusChars + 1)
    ELSE statusChars

StripStart(s, c) == IF StartsWith(s, <<c>>) THEN SubstringFrom(s, 1) ELSE s

StripEnd(s, c) == IF EndsWith(s, <<c>>) THEN Substring(s, 0, Len(s) - 1) ELSE s

(***************************************************************************)
(* Regular-expression helpers                                              *)
(***************************************************************************)
Digits == {"0", "1", "2", "3", "4", "5", "6", "7", "8", "9"}

OfferChars == Upper \cup {";"}

(* The length of the longest run of characters of a class starting at i.  *)
RECURSIVE RunLength(_, _, _)
RunLength(s, i, chars) ==
  IF i < Len(s) /\ CharAt(s, i) \in chars
    THEN 1 + RunLength(s, i + 1, chars)
    ELSE 0

Least(S) == CHOOSE i \in S : \A j \in S : i <= j

Greatest(S) == CHOOSE i \in S : \A j \in S : j <= i

Min(a, b) == IF a <= b THEN a ELSE b

(* (?:[set]|$) at index j *)
FollowedBy(s, j, set) == j = Len(s) \/ (j < Len(s) /\ CharAt(s, j) \in set)

(***************************************************************************)
(* Labels, classes, ordinal number and attributes of a vehicle token       *)
(***************************************************************************)
getTypeLabel(type) ==
  LET hits == {k \in 1..Len(TYPE_LABELS) : TYPE_LABELS[k].type = type}
  IN  IF hits = {} THEN "Coach" ELSE TYPE_LABELS[Least(hits)].label

FAMILY_WAGON_REGEX(token) ==
  Includes(token, <<"F", "A">>) \/ Includes(token, <<"F", "Z">>)

RESTAURANT_WAGON_REGEX(token) ==
  \/ Includes(token, <<"W", "1">>)
  \/ Includes(token, <<"W", "2">>)
  \/ Includes(token, <<"W", "R">>)

(* cleanToken.match(/^([12])(?::|\):|,:|@:)(\d+)/) *)
classNumberMatch(cleanToken) ==
  /\ Len(cleanToken) >= 1
  /\ CharAt(cleanToken, 0) \in {"1", "2"}
  /\ \E sep \in {<<":">>, <<")", ":">>, <<",", ":">>, <<"@", ":">>} :
       /\ MatchAt(cleanToken, sep, 1)
       /\ RunLength(cleanToken, 1 + Len(sep), Digits) >= 1

(* The four patterns of one class digit:                                   *)
(* ^d(?:[:#,@)]|$), ^12(?:[:#,@)]|$), [,@]d(?:[:#,@)]|$), \(d(?:[:#,@)]|$) *)
ClassMarker(cleanToken, digit) ==
  LET after == {":", "#", ",", "@", ")"}
  IN  \/ StartsWith(cleanToken, <<digit>>) /\ FollowedBy(cleanToken, 1, after)
      \/ StartsWith(cleanToken, <<"1", "2">>) /\ FollowedBy(cleanToken, 2, after)
      \/ \E i \in 0..(Len(cleanToken) - 2) :
           /\ CharAt(cleanToken, i) \in {",", "@", "("}
           /\ CharAt(cleanToken, i + 1) = digit
           /\ FollowedBy(cleanToken, i + 2, after)

(* determineWagonClasses without the family short-circuit *)
determineWagonClassesNoFamilyRule(token) ==
  LET cleanToken ==
        StripEnd(StripStart(StripEnd(StripStart(
          SubstringFrom(token, RunLength(token, 0, {"-", "=", ">", "%"})),
          "["), "]"), "("), ")")
  IN  IF classNumberMatch(cleanToken) THEN <<CharAt(cleanToken, 0)>>
      ELSE IF Includes(cleanToken, <<"W", "R">>) THEN <<"2">>
      ELSE IF Includes(cleanToken, <<"W", "1">>) THEN <<"1">>
      ELSE IF Includes(cleanToken, <<"W", "2">>) THEN <<"2">>
      ELSE (IF ClassMarker(cleanToken, "1") THEN <<"1">> ELSE <<>>)
           \o (IF ClassMarker(cleanToken, "2") THEN <<"2">> ELSE <<>>)

(* determineWagonClasses that takes the first digit of the ordinal, the    *)
(* second capture group, for the class.                                    *)
determineWagonClassesOrdinalDigit(token) ==
  IF FAMILY_WAGON_REGEX(token) THEN <<"2">>
  ELSE
    LET cleanToken ==
          StripEnd(StripStart(StripEnd(StripStart(
            SubstringFrom(token, RunLength(token, 0, {"-", "=", ">", "%"})),
            "["), "]"), "("), ")")
    IN  IF classNumberMatch(cleanToken)
          THEN LET digit == CharAt(cleanToken, IndexOf(cleanToken, <<":">>) + 1)
               IN  IF digit \in {"1", "2"} THEN <<digit>> ELSE <<>>
        ELSE IF Includes(cleanToken, <<"W", "R">>) THEN <<"2">>
        ELSE IF Includes(cleanToken, <<"W", "1">>) THEN <<"1">>
        ELSE IF Includes(cleanToken, <<"W", "2">>) THEN <<"2">>
        ELSE (IF ClassMarker(cleanToken, "1") THEN <<"1">> ELSE <<>>)
             \o (IF ClassMarker(cleanToken, "2") THEN <<"2">> ELSE <<>>)

determineWagonClasses(token) ==
  IF FAMILY_WAGON_REGEX(token) THEN <<"2">>
  ELSE
    LET cleanToken ==
          StripEnd(StripStart(StripEnd(StripStart(
            SubstringFrom(token, RunLength(token, 0, {"-", "=", ">", "%"})),
            "["), "]"), "("), ")")
    IN  IF classNumberMatch(cleanToken) THEN <<CharAt(cleanToken, 0)>>
        ELSE IF Includes(cleanToken, <<"W", "R">>) THEN <<"2">>
        ELSE IF Includes(cleanToken, <<"W", "1">>) THEN <<"1">>
        ELSE IF Includes(cleanToken, <<"W", "2">>) THEN <<"2">>
        ELSE (IF ClassMarker(cleanToken, "1") THEN <<"1">> ELSE <<>>)
             \o (IF ClassMarker(cleanToken, "2") THEN <<"2">> ELSE <<>>)

(* /[,:](\d{1,3})(?:[:#]|$|[)])/ : the digits captured by the leftmost     *)
(* match, Null without a match.                                            *)
OrdnrAfterSeparator(token) ==
  LET Taken(i) == {n \in 1..Min(3, RunLength(token, i + 1, Digits)) :
                     FollowedBy(token, i + 1 + n, {":", "#", ")"})}
      hits == {i \in 0..(Len(token) - 1) :
                 CharAt(token, i) \in {",", ":"} /\ Taken(i) # {}}
  IN  IF hits = {} THEN Null
      ELSE Substring(token, Least(hits) + 1,
                     Least(hits) + 1 + Greatest(Taken(Least(hits))))

(* /(\d{1,3}):(\d{1,3})/ : the second group of the leftmost match.         *)
OrdnrAfterClass(token) ==
  LET Taken(i) == {n \in 1..Min(3, RunLength(token, i, Digits)) :
                     /\ MatchAt(token, <<":">>, i + n)
                     /\ RunLength(token, i + n + 1, Digits) >= 1}
      hits == {i \in 0..(Len(token) - 1) : Taken(i) # {}}
      second == Least(hits) + Greatest(Taken(Least(hits))) + 1
  IN  IF hits = {} THEN Null
      ELSE Substring(token, second,
                     second + Min(3, RunLength(token, second, Digits)))

extractOrdnr(token) ==
  IF OrdnrAfterSeparator(token) # Null THEN OrdnrAfterSeparator(token)
  ELSE OrdnrAfterClass(token)

HasOffer(code) == \E k \in 1..Len(OFFER_MAPPING) : OFFER_MAPPING[k].code = code

getAttributeObject(code) ==
  OFFER_MAPPING[Least({k \in 1..Len(OFFER_MAPPING) : OFFER_MAPPING[k].code = code})]

HasAttribute(attributes, code) ==
  \E k \in 1..Len(attributes) : attributes[k].code = code

(* token.match(/#([A-Z;]+)/): the captured offer list, Null without one.   *)
offerMatch(token) ==
  LET hits == {i \in 0..(Len(token) - 1) :
                 /\ CharAt(token, i) = "#"
                 /\ RunLength(token, i + 1, OfferChars) >= 1}
  IN  IF hits = {} THEN Null
      ELSE Substring(token, Least(hits) + 1,
                     Least(hits) + 1 + RunLength(token, Least(hits) + 1, OfferChars))

(* for (const offer of offers) { push unless unknown or already there } *)
RECURSIVE AddOffers(_, _, _)
AddOffers(attributes, offers, k) ==
  IF k > Len(offers) THEN attributes
  ELSE IF HasOffer(offers[k]) /\ ~HasAttribute(attributes, offers[k])
    THEN AddOffers(Append(attributes, getAttributeObject(offers[k])), offers, k + 1)
  ELSE AddOffers(attributes, offers, k + 1)

ImplicitAttributes(token) ==
  (IF FAMILY_WAGON_REGEX(token)
     THEN <<[code |-> <<"F", "Z">>, label |-> "Family Zone", icon |-> "family"]>>
     ELSE <<>>)
  \o (IF Includes(token, <<"D">>)
        THEN <<[code |-> <<"L", "A">>, label |-> "Luggage", icon |-> "luggage"]>>
        ELSE <<>>)
  \o (IF Includes(token, <<"W", "L">>)
        THEN <<[code |-> <<"W", "L">>, label |-> "Sleeping Compartments",
                icon |-> "sleep"]>>
        ELSE <<>>)
  \o (IF Includes(token, <<"C", "C">>)
        THEN <<[code |-> <<"C", "C">>, label |-> "Couchette Compartments",
                icon |-> "couchette"]>>
        ELSE <<>>)
  \o (IF RESTAURANT_WAGON_REGEX(token) /\ ~Includes(token, <<"%">>)
        THEN <<[code |-> <<"W", "R">>, label |-> "Restaurant",
                icon |-> "restaurant"]>>
        ELSE <<>>)

parseWagonAttributes(token) ==
  IF offerMatch(token) = Null THEN ImplicitAttributes(token)
  ELSE AddOffers(ImplicitAttributes(token),
                 SplitOn(offerMatch(token), {";"}, <<>>), 1)

NullWagon == [isNull |-> TRUE]

IsNullWagon(w) == "isNull" \in DOMAIN w

(* The field raw is a history field: the token the wagon was decoded from. *)
parseVehicleToken(token, sector, position) ==
  IF token = <<>> \/ Trim(token) = <<>>
    THEN NullWagon
    ELSE
      LET statusCodes == parseWagonStatus(token)
          cleanTokenWithParentheses ==
            IF StartsWith(token, <<"-">>)
              THEN SubstringFrom(token, 1)
            ELSE IF \E k \in 1..Len(STATUS_CHARS) :
                      StartsWith(token, <<STATUS_CHARS[k]>>)
              THEN SubstringFrom(token, LeadingStatusChars(token, 0))
            ELSE token
          cleanToken ==
            StripEnd(StripStart(StripEnd(StripStart(
              cleanTokenWithParentheses, "["), "]"), "("), ")")
          wagonType == determineWagonType(cleanToken)
          tokenForNumberExtraction ==
            SelectSeq(cleanToken, LAMBDA c : c \notin {"(", ")", "[", "]"})
          ordnr == extractOrdnr(tokenForNumberExtraction)
      IN  [position |-> position,
           number |-> IF ordnr = Null THEN <<>> ELSE ordnr,
           type |-> wagonType,
           typeLabel |-> getTypeLabel(wagonType),
           classes |-> determineWagonClasses(cleanTokenWithParentheses),
           attributes |-> parseWagonAttributes(cleanToken),
           noAccessToPrevious |->
             StartsWith(cleanTokenWithParentheses, <<"(">>)
               \/ StartsWith(token, <<"(">>),
           noAccessToNext |->
             EndsWith(cleanTokenWithParentheses, <<")">>)
               \/ EndsWith(token, <<")">>),
           noAccessMessage |-> Undefined,
           sector |-> sector,
           statusCodes |-> statusCodes,
           raw |-> token]

(***************************************************************************)
(* Vehicle group decoder                                                   *)
(***************************************************************************)
NEIGHBOUR_MESSAGE == "No passage to the neighbouring coach possible"
PREVIOUS_MESSAGE == "No passage to previous coach"
NEXT_MESSAGE == "No passage to next coach"

(* str.match(/@([A-Z])/): the index of the first marker, -1 without one. *)
SectorMatchIndex(str) ==
  LET hits == {i \in 0..(Len(str) - 2) :
                 CharAt(str, i) = "@" /\ CharAt(str, i + 1) \in Upper}
  IN  IF hits = {} THEN -1 ELSE CHOOSE i \in hits : \A j \in hits : i <= j

(* groupContent.match(/\((.*?)\)/): element 0 of the match, the text from  *)
(* the first '(' that has a ')' after it up to the nearest such ')'.       *)
GroupParenthesisMatch(groupContent) ==
  LET opens == {i \in 0..(Len(groupContent) - 1) :
                  /\ CharAt(groupContent, i) = "("
                  /\ IndexOfFrom(groupContent, <<")">>, i + 1) # -1}
      a == CHOOSE i \in opens : \A j \in opens : i <= j
  IN  IF opens = {} THEN Null
      ELSE Substring(groupContent, a, IndexOfFrom(groupContent, <<")">>, a + 1) + 1)

(* groupContent.match(/(?:\)|\])(?:[:#]\d+)?(?:#([A-Z;]+))?$/): group 1 of  *)
(* the leftmost match, Null without a match or when group 1 took no part   *)
(* in it.  TailOf(j) tells how the text from index j on matches the rest   *)
(* of the pattern: -1 not at all, -2 without an offer list, otherwise the  *)
(* index at which the captured offer list starts.                          *)
GroupAttributesMatch(groupContent) ==
  LET len == Len(groupContent)
      Offers(j) == /\ MatchAt(groupContent, <<"#">>, j)
                   /\ RunLength(groupContent, j + 1, OfferChars) >= 1
                   /\ j + 1 + RunLength(groupContent, j + 1, OfferChars) = len
      Counted(j) == /\ j < len
                    /\ CharAt(groupContent, j) \in {":", "#"}
                    /\ RunLength(groupContent, j + 1, Digits) >= 1
      AfterCount(j) == j + 1 + RunLength(groupContent, j + 1, Digits)
      TailOf(j) == IF Counted(j) /\ Offers(AfterCount(j)) THEN AfterCount(j) + 1
                   ELSE IF Counted(j) /\ AfterCount(j) = len THEN -2
                   ELSE IF Offers(j) THEN j + 1
                   ELSE IF j = len THEN -2
                   ELSE -1
      hits == {i \in 0..(len - 1) :
                 CharAt(groupContent, i) \in {")", "]"} /\ TailOf(i + 1) # -1}
  IN  IF hits = {} \/ TailOf(Least(hits) + 1) = -2 THEN Null
      ELSE SubstringFrom(groupContent, TailOf(Least(hits) + 1))

(* for (const offer of offerList) { attr = getAttributeObject(offer); ... } *)
RECURSIVE CollectOffers(_, _)
CollectOffers(offerList, k) ==
  IF k > Len(offerList) THEN <<>>
  ELSE (IF HasOffer(offerList[k]) THEN <<getAttributeObject(offerList[k])>>
                                  ELSE <<>>)
       \o CollectOffers(offerList, k + 1)

GroupAttributes(groupContent) ==
  IF GroupAttributesMatch(groupContent) = Null THEN <<>>
  ELSE CollectOffers(SplitOn(GroupAttributesMatch(groupContent), {";"}, <<>>), 1)

(* tokens.slice(i + 1).every(t => t.type !== TokenType.VEHICLE) *)
isLastRealWagon(tokens, i) ==
  \A k \in (i + 2)..Len(tokens) : tokens[k].type # "VEHICLE"

(* AddGroupAttributes without the test for a code that is already there *)
RECURSIVE AddGroupAttributesUnchecked(_, _, _)
AddGroupAttributesUnchecked(attributes, groupAttributes, k) ==
  IF k > Len(groupAttributes) THEN attributes
  ELSE AddGroupAttributesUnchecked(Append(attributes, groupAttributes[k]),
                                   groupAttributes, k + 1)

(* for (const attr of groupAttributes) { push unless already there } *)
RECURSIVE AddGroupAttributes(_, _, _)
AddGroupAttributes(attributes, groupAttributes, k) ==
  IF k > Len(groupAttributes) THEN attributes
  ELSE IF ~HasAttribute(attributes, groupAttributes[k].code)
    THEN AddGroupAttributes(Append(attributes, groupAttributes[k]),
                            groupAttributes, k + 1)
  ELSE AddGroupAttributes(attributes, groupAttributes, k + 1)

WithGroupAttributes(parsedWagon, tokens, i, groupAttributes) ==
  IF isLastRealWagon(tokens, i) /\ Len(groupAttributes) > 0
    THEN [parsedWagon EXCEPT
            !.attributes = AddGroupAttributes(@, groupAttributes, 1)]
    ELSE parsedWagon

(* The no-passage flags of the group boundaries, for the wagon parsed     *)
(* from token i of n tokens.                                               *)
GroupBoundary(parsedWagon, i, n, hasGroupParenthesis) ==
  LET noAccessAcrossGroups == hasGroupParenthesis # Null
      first == IF /\ i = 0
                  /\ noAccessAcrossGroups
                  /\ StartsWith(hasGroupParenthesis, <<"(">>)
                 THEN [parsedWagon EXCEPT
                         !.noAccessToPrevious = TRUE,
                         !.noAccessMessage = NEIGHBOUR_MESSAGE]
                 ELSE parsedWagon
  IN  IF /\ i = n - 1
         /\ noAccessAcrossGroups
         /\ EndsWith(hasGroupParenthesis, <<")">>)
        THEN [first EXCEPT
                !.noAccessToNext = TRUE,
                !.noAccessMessage = NEIGHBOUR_MESSAGE]
        ELSE first

(* if (parsedWagon) { ...; wagons.push(parsedWagon) } *)
PushParsed(wagons, parsedWagon, tokens, i, groupAttributes, hasGroupParenthesis) ==
  IF IsNullWagon(parsedWagon)
    THEN wagons
    ELSE Append(wagons,
                GroupBoundary(WithGroupAttributes(parsedWagon, tokens, i,
                                                  groupAttributes),
                              i, Len(tokens), hasGroupParenthesis))

(* The sector a SECTOR token makes current. *)
SectorOfToken(value, currentSector) ==
  IF SectorMatchIndex(value) # -1
    THEN CharAt(value, SectorMatchIndex(value) + 1)
    ELSE currentSector

RECURSIVE groupLoop(_, _, _, _, _, _, _)
groupLoop(tokens, groupAttributes, hasGroupParenthesis, i, currentSector, position, wagons) ==
  IF i >= Len(tokens) THEN wagons
  ELSE IF tokens[i + 1].type = "SECTOR"
    THEN groupLoop(tokens, groupAttributes, hasGroupParenthesis, i + 1,
                   SectorOfToken(tokens[i + 1].value, currentSector),
                   position, wagons)
  ELSE IF tokens[i + 1].type # "VEHICLE" /\ tokens[i + 1].type # "FICTITIOUS_WAGON"
    THEN groupLoop(tokens, groupAttributes, hasGroupParenthesis, i + 1,
                   currentSector, position, wagons)
  ELSE groupLoop(tokens, groupAttributes, hasGroupParenthesis, i + 1,
                 currentSector, position + 1,
                 PushParsed(wagons,
                            parseVehicleToken(tokens[i + 1].value, currentSector,
                                              position),
                            tokens, i, groupAttributes, hasGroupParenthesis))

parseVehicleGroup(groupContent, sector, startPosition) ==
  groupLoop(tokenizeFormationString(groupContent),
            GroupAttributes(groupContent),
            GroupParenthesisMatch(groupContent), 0, sector, startPosition, <<>>)

(***************************************************************************)
(* Segment processor.  sectorMap, a Map<string, TrainWagon[]>, is the      *)
(* sequence of its entries in insertion order.                             *)
(***************************************************************************)
MapHas(sectorMap, key) == \E k \in 1..Len(sectorMap) : sectorMap[k].sector = key

MapGet(sectorMap, key) ==
  IF MapHas(sectorMap, key)
    THEN sectorMap[CHOOSE k \in 1..Len(sectorMap) : sectorMap[k].sector = key].wagons
    ELSE Null

(* Mutant: every set adds an entry, also for a key the map holds. *)
MapSetAlwaysAdds(sectorMap, key, value) ==
  Append(sectorMap, [sector |-> key, wagons |-> value])

MapSet(sectorMap, key, value) ==
  IF MapHas(sectorMap, key)
    THEN [k \in 1..Len(sectorMap) |->
            IF sectorMap[k].sector = key
              THEN [sector |-> key, wagons |-> value]
              ELSE sectorMap[k]]
    ELSE Append(sectorMap, [sector |-> key, wagons |-> value])

(* The wagons pushed to the list of the default sector, whatever the       *)
(* current sector is.                                                      *)
PushWagonsToDefaultSector(sectorMap, currentSector, wagons) ==
  LET sectorWagons == IF MapHas(sectorMap, "") THEN MapGet(sectorMap, "")
                        ELSE <<>>
  IN  MapSet(sectorMap, "", sectorWagons \o wagons)

(* sectorMap.get(currentSector) || [], the pushed wagons, sectorMap.set *)
PushWagons(sectorMap, currentSector, wagons) ==
  LET sectorWagons == IF MapHas(sectorMap, currentSector)
                        THEN MapGet(sectorMap, currentSector)
                        ELSE <<>>
  IN  MapSet(sectorMap, currentSector, sectorWagons \o wagons)

(* A removal that takes the opening bracket only and leaves the group. *)
RemoveOpeningBracketOnly(segment) ==
  LET startIdx == IndexOf(segment, <<"[">>)
  IN  Substring(segment, 0, startIdx) \o SubstringFrom(segment, startIdx + 1)

(* Removal of the processed bracket group from the segment. *)
RemoveProcessedGroup(segment) ==
  LET startIdx == IndexOf(segment, <<"[">>)
      endIdx == IndexOfFrom(segment, <<"]">>, startIdx) + 1
  IN  Substring(segment, 0, startIdx) \o SubstringFrom(segment, endIdx)

(* if (wagons.length > 0) { add them to the sector; position += wagons.length } *)
(* st holds position and sectorMap.                                        *)
AddGroup(st, currentSector, wagons) ==
  IF Len(wagons) > 0
    THEN [position |-> st.position + Len(wagons),
          sectorMap |-> PushWagons(st.sectorMap, currentSector, wagons)]
    ELSE st

(* The while loop that drains the bracket groups of a segment: the segment *)
(* that is left, with position and sectorMap.                              *)
RECURSIVE drainBrackets(_, _, _)
drainBrackets(segment, currentSector, st) ==
  IF extractBracketContent(segment, "[", "]") = Null
    THEN [segment |-> segment, position |-> st.position,
          sectorMap |-> st.sectorMap]
    ELSE drainBrackets(
           RemoveProcessedGroup(segment),
           currentSector,
           AddGroup(st, currentSector,
                    parseVehicleGroup(extractBracketContent(segment, "[", "]"),
                                      currentSector, st.position)))

(* segment.split(/[,\\]/).filter(t => t.trim()) *)
OutsideTokens(segment) ==
  SelectSeq(SplitOn(segment, {",", "\\"}, <<>>), LAMBDA t : Trim(t) # <<>>)

(* if (wagon) { add it to the sector; position++ } *)
AddWagon(st, currentSector, wagon) ==
  IF IsNullWagon(wagon)
    THEN st
    ELSE [position |-> st.position + 1,
          sectorMap |-> PushWagons(st.sectorMap, currentSector, <<wagon>>)]

(* The body of tokens.forEach for one token outside of brackets. *)
OutsideToken(st, currentSector, trimmedToken) ==
  IF trimmedToken = <<"F">>
    THEN [st EXCEPT !.position = @ + 1]
  ELSE IF isPotentialWagonToken(trimmedToken)
    THEN AddWagon(st, currentSector,
                  parseVehicleToken(trimmedToken, currentSector, st.position))
  ELSE st

(* tokens.forEach(...) over the tokens outside of brackets *)
RECURSIVE outsideLoop(_, _, _, _)
outsideLoop(tokens, k, currentSector, st) ==
  IF k > Len(tokens)
    THEN st
    ELSE outsideLoop(tokens, k + 1, currentSector,
                     OutsideToken(st, currentSector, Trim(tokens[k])))

(* The part of processSegment after the while loop. *)
OutsideOfBrackets(drained, currentSector) ==
  outsideLoop(OutsideTokens(drained.segment), 1, currentSector,
              [position |-> drained.position, sectorMap |-> drained.sectorMap])

processSegment(segment, currentSector, position, sectorMap) ==
  OutsideOfBrackets(
    drainBrackets(segment, currentSector,
                  [position |-> position, sectorMap |-> sectorMap]),
    currentSector)

(***************************************************************************)
(* Cross-section finalizer                                                 *)
(***************************************************************************)
(* The per-wagon message pass of finalizeTrainSections. *)
SetAccessMessage(wagon) ==
  LET a == IF wagon.noAccessToPrevious
             THEN [wagon EXCEPT !.noAccessMessage = PREVIOUS_MESSAGE]
             ELSE wagon
  IN  IF a.noAccessToNext THEN [a EXCEPT !.noAccessMessage = NEXT_MESSAGE] ELSE a

(* Mutant: a no-passage flag is not copied to the other side of the pair. *)
FinalizePairOneSided(previousWagon, wagon) ==
  LET isCurrentLocomotive == wagon.type = "locomotive"
      isPreviousLocomotive == previousWagon.type = "locomotive"
  IN  IF isCurrentLocomotive \/ isPreviousLocomotive
        THEN [previousWagon |->
                [previousWagon EXCEPT !.noAccessToNext = FALSE,
                                      !.noAccessMessage = Undefined],
              wagon |->
                [wagon EXCEPT !.noAccessToPrevious = FALSE,
                              !.noAccessMessage = Undefined]]
        ELSE [previousWagon |-> previousWagon, wagon |-> wagon]

(* Mutant: next to a locomotive only the locomotive's own flag is cleared. *)
FinalizePairLocomotiveOnly(previousWagon, wagon) ==
  LET isCurrentLocomotive == wagon.type = "locomotive"
      isPreviousLocomotive == previousWagon.type = "locomotive"
  IN  IF /\ previousWagon.noAccessToNext \/ wagon.noAccessToPrevious
         /\ ~isCurrentLocomotive
         /\ ~isPreviousLocomotive
        THEN [previousWagon |->
                [previousWagon EXCEPT
                   !.noAccessToNext = TRUE,
                   !.noAccessMessage =
                     IF previousWagon.noAccessMessage = Undefined
                       THEN NEXT_MESSAGE ELSE previousWagon.noAccessMessage],
              wagon |->
                [wagon EXCEPT
                   !.noAccessToPrevious = TRUE,
                   !.noAccessMessage =
                     IF wagon.noAccessMessage = Undefined
                       THEN PREVIOUS_MESSAGE ELSE wagon.noAccessMessage]]
        ELSE [previousWagon |->
                IF isPreviousLocomotive
                  THEN [previousWagon EXCEPT !.noAccessToNext = FALSE,
                                             !.noAccessMessage = Undefined]
                  ELSE previousWagon,
              wagon |->
                IF isCurrentLocomotive
                  THEN [wagon EXCEPT !.noAccessToPrevious = FALSE,
                                     !.noAccessMessage = Undefined]
                  ELSE wagon]

(* FinalizePair that clears the flag of the locomotive's neighbour only,   *)
(* not the locomotive's own.                                               *)
FinalizePairNeighbourOnly(previousWagon, wagon) ==
  LET isCurrentLocomotive == wagon.type = "locomotive"
      isPreviousLocomotive == previousWagon.type = "locomotive"
  IN  IF /\ previousWagon.noAccessToNext \/ wagon.noAccessToPrevious
         /\ ~isCurrentLocomotive
         /\ ~isPreviousLocomotive
        THEN [previousWagon |->
                [previousWagon EXCEPT
                   !.noAccessToNext = TRUE,
                   !.noAccessMessage =
                     IF previousWagon.noAccessMessage = Undefined
                       THEN NEXT_MESSAGE ELSE previousWagon.noAccessMessage],
              wagon |->
                [wagon EXCEPT
                   !.noAccessToPrevious = TRUE,
                   !.noAccessMessage =
                     IF wagon.noAccessMessage = Undefined
                       THEN PREVIOUS_MESSAGE ELSE wagon.noAccessMessage]]
        ELSE [previousWagon |->
                IF isCurrentLocomotive /\ ~isPreviousLocomotive
                  THEN [previousWagon EXCEPT !.noAccessToNext = FALSE,
                                             !.noAccessMessage = Undefined]
                  ELSE previousWagon,
              wagon |->
                IF isPreviousLocomotive /\ ~isCurrentLocomotive
                  THEN [wagon EXCEPT !.noAccessToPrevious = FALSE,
                                     !.noAccessMessage = Undefined]
                  ELSE wagon]

(* The body of allWagons.forEach for the pair (previousWagon, wagon): the  *)
(* pair as the body leaves it.                                             *)
FinalizePair(previousWagon, wagon) ==
  LET isCurrentLocomotive == wagon.type = "locomotive"
      isPreviousLocomotive == previousWagon.type = "locomotive"
  IN  IF /\ previousWagon.noAccessToNext \/ wagon.noAccessToPrevious
         /\ ~isCurrentLocomotive
         /\ ~isPreviousLocomotive
        THEN [previousWagon |->
                [previousWagon EXCEPT
                   !.noAccessToNext = TRUE,
                   !.noAccessMessage =
                     IF previousWagon.noAccessMessage = Undefined
                       THEN NEXT_MESSAGE ELSE previousWagon.noAccessMessage],
              wagon |->
                [wagon EXCEPT
                   !.noAccessToPrevious = TRUE,
                   !.noAccessMessage =
                     IF wagon.noAccessMessage = Undefined
                       THEN PREVIOUS_MESSAGE ELSE wagon.noAccessMessage]]
      ELSE IF isCurrentLocomotive \/ isPreviousLocomotive
        THEN [previousWagon |->
                [previousWagon EXCEPT !.noAccessToNext = FALSE,
                                      !.noAccessMessage = Undefined],
              wagon |->
                [wagon EXCEPT !.noAccessToPrevious = FALSE,
                              !.noAccessMessage = Undefined]]
      ELSE [previousWagon |-> previousWagon, wagon |-> wagon]

(* Mutant: the provisional position of parsing is kept. *)
KeepProvisionalPosition(wagon, currentPosition) == wagon

(* wagon.position = currentPosition++ *)
UpdatePosition(wagon, currentPosition) ==
  [wagon EXCEPT !.position = currentPosition]

(* Mutant: the status codes of a locomotive are kept. *)
KeepLocomotiveStatus(wagon) == wagon

(* if (wagon.type === 'locomotive') wagon.statusCodes = [] *)
ClearLocomotiveStatus(wagon) ==
  IF wagon.type = "locomotive" THEN [wagon EXCEPT !.statusCodes = <<>>] ELSE wagon

(* allWagons.forEach: k is the 1-based index of the current wagon. *)
RECURSIVE finalizeLoop(_, _)
finalizeLoop(allWagons, k) ==
  IF k > Len(allWagons) THEN allWagons
  ELSE
    LET wagon == ClearLocomotiveStatus(UpdatePosition(allWagons[k], k - 1))
    IN  IF k = 1
          THEN finalizeLoop([allWagons EXCEPT ![k] = wagon], k + 1)
          ELSE LET pair == FinalizePair(allWagons[k - 1], wagon)
               IN  finalizeLoop([allWagons EXCEPT ![k - 1] = pair.previousWagon,
                                                  ![k] = pair.wagon],
                                k + 1)

RECURSIVE Flatten(_)
Flatten(secs) ==
  IF secs = <<>> THEN <<>> ELSE Head(secs).wagons \o Flatten(Tail(secs))

(* The wagons are shared objects: the sections see what the pass over the  *)
(* flat array did to them.                                                 *)
RECURSIVE Regroup(_, _)
Regroup(secs, allWagons) ==
  IF secs = <<>> THEN <<>>
  ELSE LET n == Len(Head(secs).wagons)
       IN  <<[sector |-> Head(secs).sector, wagons |-> SubSeq(allWagons, 1, n)]>>
             \o Regroup(Tail(secs), SubSeq(allWagons, n + 1, Len(allWagons)))

finalizeTrainSections(secs) ==
  LET filteredSections == SelectSeq(secs, LAMBDA section : Len(section.wagons) > 0)
      messaged == [k \in 1..Len(filteredSections) |->
                     [sector |-> filteredSections[k].sector,
                      wagons |-> [j \in 1..Len(filteredSections[k].wagons) |->
                                    SetAccessMessage(filteredSections[k].wagons[j])]]]
  IN  Regroup(messaged, finalizeLoop(Flatten(messaged), 1))

(***************************************************************************)
(* Main parser                                                             *)
(***************************************************************************)
(* formationString.split(/(?=@[A-Z])/): a cut before every marker that is  *)
(* not at index 0.                                                         *)
RECURSIVE splitLoop(_, _, _)
splitLoop(str, p, q) ==
  IF q >= Len(str) THEN <<Substring(str, p, Len(str))>>
  ELSE IF q # p /\ CharAt(str, q) = "@" /\ q + 1 < Len(str)
            /\ CharAt(str, q + 1) \in Upper
    THEN <<Substring(str, p, q)>> \o splitLoop(str, q, q + 1)
  ELSE splitLoop(str, p, q + 1)

SplitSectorSegments(str) == splitLoop(str, 0, 0)

(* The segment without its sector marker, as handed to processSegment. *)
SegmentBody(segment) ==
  LET m == SectorMatchIndex(segment)
  IN  IF m # -1 THEN SubstringFrom(segment, m + 2) ELSE segment

(* The sector of a segment: that of its marker, else the current one. *)
SectorOfSegment(segment, currentSector) ==
  IF SectorMatchIndex(segment) # -1
    THEN CharAt(segment, SectorMatchIndex(segment) + 1)
    ELSE currentSector

(* if (!sectorMap.has(currentSector)) sectorMap.set(currentSector, []) *)
EnsureSector(sectorMap, segment, currentSector) ==
  IF SectorMatchIndex(segment) # -1 /\ ~MapHas(sectorMap, currentSector)
    THEN MapSet(sectorMap, currentSector, <<>>)
    ELSE sectorMap

(* The body of the loop for one non-blank segment, currentSector being the *)
(* sector of the segment.                                                  *)
SegmentStep(segment, currentSector, st) ==
  [currentSector |-> currentSector]
    @@ processSegment(SegmentBody(segment), currentSector, st.position,
                      EnsureSector(st.sectorMap, segment, currentSector))

(* for (let segment of sectorSegments): st holds the variables the loop    *)
(* updates, sectorMap, currentSector and position.                         *)
RECURSIVE segmentLoop(_, _, _)
segmentLoop(sectorSegments, k, st) ==
  IF k > Len(sectorSegments) THEN st
  ELSE IF Trim(sectorSegments[k]) = <<>>
    THEN segmentLoop(sectorSegments, k + 1, st)
  ELSE segmentLoop(sectorSegments, k + 1,
                   SegmentStep(sectorSegments[k],
                               SectorOfSegment(sectorSegments[k], st.currentSector),
                               st))

(* /\\@[A-Z]/.test(formationString) *)
HasEscapedMarker(str) ==
  \E i \in 0..(Len(str) - 3) :
    /\ CharAt(str, i) = "\\"
    /\ CharAt(str, i + 1) = "@"
    /\ CharAt(str, i + 2) \in Upper

hasSectors(str) == Includes(str, <<"@">>) \/ HasEscapedMarker(str)

(* The main vehicle group of a string without sector markers: the content  *)
(* of the outermost brackets, the whole string when there is none.         *)
MainGroupContent(str) ==
  LET extracted == extractBracketContent(str, "[", "]")
  IN  IF extracted = Null \/ extracted = <<>> THEN str ELSE extracted

(* Mutant: the default sector is a platform sector. *)
InitialParseStateSectorA ==
  [sectorMap |-> <<>>, currentSector |-> "A", position |-> 0]

(* Parse state that keeps the sector the previous call ended in. *)
InitialParseStateFromLastCall ==
  [sectorMap |-> <<>>,
   currentSector |->
     IF sections = <<>> THEN "" ELSE sections[Len(sections)].sector,
   position |-> 0]

(* sectorMap = new Map(), currentSector = '', position = 0 *)
InitialParseState ==
  [sectorMap |-> <<>>, currentSector |-> "", position |-> 0]

(* The sections handed to finalizeTrainSections: the entries of sectorMap  *)
(* that hold wagons.                                                       *)
assembleSections(str) ==
  LET start == InitialParseState
      bracketContent == MainGroupContent(str)
      sectorMap ==
        IF hasSectors(str)
          THEN segmentLoop(SplitSectorSegments(str), 1, start).sectorMap
          ELSE processSegment(bracketContent, start.currentSector,
                              start.position, start.sectorMap).sectorMap
  IN  SelectSeq(sectorMap, LAMBDA entry : Len(entry.wagons) > 0)

parseFormationString(str) ==
  IF str = <<>> \/ Trim(str) = <<>>
    THEN <<>>
    ELSE finalizeTrainSections(assembleSections(str))

(***************************************************************************)
(* Travel direction resolver                                               *)
(***************************************************************************)
(* .split(',').map(s => s.trim()).filter(s => s) *)
vehicleSectorsOf(sectorsField) ==
  SelectSeq([k \in 1..Len(SplitOn(sectorsField, {","}, <<>>)) |->
               Trim(SplitOn(sectorsField, {","}, <<>>)[k])],
            LAMBDA s : s # <<>>)

(* .map(section => section.sector).filter(sector => sector?.trim()) *)
visualSectorsOf(secs) ==
  SelectSeq([k \in 1..Len(secs) |-> secs[k].sector],
            LAMBDA sector : sector # "" /\ sector \notin Whitespace)

(* vehicleSectors.includes(sector): a sector is a one-character string *)
IncludesSector(vehicleSectors, sector) ==
  \E k \in 1..Len(vehicleSectors) : vehicleSectors[k] = <<sector>>

(* DirectionOf with the last visual sector tested before the first *)
DirectionOfLastFirst(visualSectors, vehicleSectors) ==
  IF Len(visualSectors) = 0 THEN "unknown"
  ELSE IF Len(vehicleSectors) = 0 THEN "unknown"
  ELSE IF IncludesSector(vehicleSectors, visualSectors[Len(visualSectors)])
    THEN "right"
  ELSE IF IncludesSector(vehicleSectors, visualSectors[1]) THEN "left"
  ELSE "unknown"

(* The steps after the guard of the blank formation string and of the     *)
(* missing sector field.                                                   *)
DirectionOf(visualSectors, vehicleSectors) ==
  IF Len(visualSectors) = 0 THEN "unknown"
  ELSE IF Len(vehicleSectors) = 0 THEN "unknown"
  ELSE IF IncludesSector(vehicleSectors, visualSectors[1]) THEN "left"
  ELSE IF IncludesSector(vehicleSectors, visualSectors[Len(visualSectors)])
    THEN "right"
  ELSE "unknown"

(* determineTravelDirection with 'left' as the result of the guard *)
determineTravelDirectionDefaultsLeft(str, vehicle) ==
  IF Trim(str) = <<>> \/ vehicle.sectors = Null \/ vehicle.sectors = <<>>
    THEN "left"
    ELSE DirectionOf(visualSectorsOf(parseFormationString(str)),
                     vehicleSectorsOf(vehicle.sectors))

determineTravelDirection(str, vehicle) ==
  IF Trim(str) = <<>> \/ vehicle.sectors = Null \/ vehicle.sectors = <<>>
    THEN "unknown"
    ELSE DirectionOf(visualSectorsOf(parseFormationString(str)),
                     vehicleSectorsOf(vehicle.sectors))

(***************************************************************************)
(* The decoder as a state machine: a formation string arrives from the     *)
(* API, parseFormationString decodes it.                                   *)
(***************************************************************************)
Pieces ==
  { <<"@", "A">>, <<"@", "B">>, <<"[">>, <<"]">>, <<"(">>, <<")">>, <<",">>,
    <<"F">>, <<"L", "K">>, <<"1">>, <<"2">>, <<"%">> }

RECURSIVE Concat(_)
Concat(ps) == IF ps = <<>> THEN <<>> ELSE Head(ps) \o Concat(Tail(ps))

(* A formation string: at most MaxPieces pieces, after the sector marker   *)
(* the API's strings start with, or without one.                           *)
LeadingMarkers == { <<>>, <<"@", "A">> }

FormationStrings ==
  {lead \o Concat(ps) :
     lead \in LeadingMarkers,
     ps \in UNION {[1..n -> Pieces] : n \in 0..MaxPieces}}

(* No vehicle data and no direction resolved: `let travelDirection = 'unknown'`. *)
NoDirection ==
  /\ firstVehicle = [sectors |-> Null]
  /\ travelDirection = "unknown"

(* The service as constructed: no response cached, stop index 0, no        *)
(* formation published, nothing in flight; no decode call made yet.        *)
Constructed ==
  /\ lastApiResponse = Null
  /\ selectedStop = -1
  /\ currentStopIndex = 0
  /\ currentFormation = Null
  /\ pending = <<>>
  /\ decodeLog = <<>>
  /\ loopSegment = <<>>
  /\ loopBracketContent = Null
  /\ requests = <<>>
  /\ loadingCount = 0
  /\ loading = FALSE

Init ==
  /\ formationString \in FormationStrings
  /\ sections = <<>>
  /\ pc = "received"
  /\ NoDirection
  /\ Constructed

(* One call of parseFormationString; decodeLog records the argument and the *)
(* returned section list of every call.                                    *)
Decode ==
  /\ pc = "received"
  /\ LET result == parseFormationString(formationString)
     IN  /\ sections' = result
         /\ decodeLog' = Append(decodeLog, [input |-> formationString,
                                            output |-> result])
  /\ pc' = "decoded"
  /\ UNCHANGED <<formationString, firstVehicle, travelDirection>>
  /\ UNCHANGED serviceVars
  /\ UNCHANGED loopAndHttpVars

Next == Decode

Spec == Init /\ [][Next]_vars

(***************************************************************************)
(* Formation strings made of whole vehicle tokens: a status prefix and a   *)
(* body (type code, ordinal number, offer list), written outside brackets, *)
(* in a bracket group, or in a bracket group behind a sector marker; and   *)
(* single bracket groups with parentheses and a trailing offer list.       *)
(***************************************************************************)
MaxVehicles == 2

StatusPrefixes ==
  { <<>>, <<"-">>, <<"%">>, <<">", "=">>, <<"(", "-">>, <<"@", "-">>,
    <<"-", ">">> }

VehicleBodies ==
  { <<"1">>, <<"2", ":", "3">>, <<"1", "2", "#", "B", "H", "P">>,
    <<"F", "A", ":", "4">>,
    <<"1", "#", "F", "Z", ";", "N", "F", ";", "F", "Z">>,
    <<"W", "1", "#", "N", "F", ";", "N", "F">>, <<"W", "R">>, <<"L", "K">>,
    <<"D", "#", "L", "A", ";", "V", "H">> }

VehicleTokenStrings == {p \o b : p \in StatusPrefixes, b \in VehicleBodies}

(* Array.prototype.join(',') *)
RECURSIVE JoinComma(_)
JoinComma(ts) ==
  IF ts = <<>> THEN <<>>
  ELSE IF Len(ts) = 1 THEN Head(ts)
  ELSE Head(ts) \o <<",">> \o JoinComma(Tail(ts))

TokenLists(tokenSet) == UNION {[1..n -> tokenSet] : n \in 1..MaxVehicles}

TokenFormationStrings ==
  {open \o JoinComma(ts) \o close :
     open \in {<<>>, <<"[">>, <<"@", "A", "[">>},
     close \in {<<>>, <<"]">>},
     ts \in TokenLists(VehicleTokenStrings)}

GroupVehicles ==
  { <<"1", ":", "1">>, <<"2", ":", "2", "#", "N", "F">>, <<"F">>,
    <<"L", "K">>, <<"%", "W", "2">> }

GroupSuffixes ==
  { <<>>, <<"#", "N", "F">>, <<"#", "K", "W">>,
    <<":", "2", "#", "V", "H", ";", "N", "F">>,
    <<"#", "N", "F", ";", "B", "Z", ";", "N", "F">> }

GroupFormationStrings ==
  {<<"@", "A", "[">> \o open \o JoinComma(ts) \o close \o suffix \o <<"]">> :
     open \in {<<>>, <<"(">>},
     close \in {<<>>, <<")">>},
     suffix \in GroupSuffixes,
     ts \in TokenLists(GroupVehicles)}

VehicleFormationStrings == TokenFormationStrings \cup GroupFormationStrings

InitVehicle ==
  /\ formationString \in VehicleFormationStrings
  /\ sections = <<>>
  /\ pc = "received"
  /\ NoDirection
  /\ Constructed

SpecVehicle == InitVehicle /\ [][Next]_vars

(***************************************************************************)
(* The direction resolver as a state machine: for one stop, the formation  *)
(* string is decoded and the travel direction is resolved from it and from *)
(* the sector field of the first vehicle at that stop.                     *)
(***************************************************************************)
MaxSectors == 3

SectorGroups ==
  { <<"@", "A", "[", "1", ":", "1", "]">>,
    <<"@", "B", "[", "2", ":", "2", "]">>,
    <<"@", "C", "[", "L", "K", "]">>, <<"@", "B">>,
    <<"[", "1", ":", "1", "]">>, <<"@", "A", "[", "F", "]">> }

BlankStrings ==
  { <<" ">>, <<" ", " ">> }

DirectionStrings ==
  {Concat(gs) : gs \in UNION {[1..n -> SectorGroups] : n \in 0..MaxSectors}}
    \cup BlankStrings

VehicleSectorFields ==
  { <<>>, <<"A">>, <<"B">>, <<"C">>, <<"D">>, <<"A", ",", "B">>,
    <<"C", ",", "A">>, <<" ", "B", " ">>, <<",">>, <<"B", ",", " ", "C">>,
    <<"A", "B">> } \cup {Null}

InitDirection ==
  /\ formationString \in DirectionStrings
  /\ firstVehicle \in [sectors : VehicleSectorFields]
  /\ sections = <<>>
  /\ pc = "received"
  /\ travelDirection = "unknown"
  /\ Constructed

ResolveDirection ==
  /\ pc = "decoded"
  /\ travelDirection' = determineTravelDirection(formationString, firstVehicle)
  /\ pc' = "resolved"
  /\ UNCHANGED <<formationString, sections, firstVehicle, decodeLog>>
  /\ UNCHANGED serviceVars
  /\ UNCHANGED loopAndHttpVars

NextDirection == Decode \/ ResolveDirection

SpecDirection == InitDirection /\ [][NextDirection]_vars

(***************************************************************************)
(* Two calls of the decoder: a string without sector markers, then the     *)
(* same string behind the marker of sector A.                              *)
(***************************************************************************)
MaxMarkerFreePieces == 4

MarkerFreePieces ==
    { <<"[", "1", ":", "1", "]">>,
    <<"[", "(", "2", "#", "N", "F", ",", "L", "K", ")", "#", "B", "Z", "]">>,
    <<"[", "-", "W", "2", ",", "F", "]">>, <<"1">>, <<",">>, <<"F">>,
    <<"[">>, <<"]">> }

MarkerFreeStrings ==
  {Concat(ps) : ps \in UNION {[1..n -> MarkerFreePieces] : n \in 0..MaxMarkerFreePieces}}

InitMarker ==
  /\ formationString \in MarkerFreeStrings
  /\ sections = <<>>
  /\ pc = "received"
  /\ NoDirection
  /\ Constructed

(* The next string handed to the decoder is the one just decoded with '@A' *)
(* written in front of it.                                                 *)
PrefixSectorMarker ==
  /\ pc = "decoded"
  /\ Len(decodeLog) = 1
  /\ formationString' = <<"@", "A">> \o formationString
  /\ pc' = "received"
  /\ UNCHANGED <<sections, firstVehicle, travelDirection, decodeLog>>
  /\ UNCHANGED serviceVars
  /\ UNCHANGED loopAndHttpVars

NextMarker == Decode \/ PrefixSectorMarker

SpecMarker == InitMarker /\ [][NextMarker]_vars

(***************************************************************************)
(* FormationService as a state machine.  An API response is the list of    *)
(* the formationShortString of its scheduled stops (the stop at index i    *)
(* has uic i and a name); it carries no vehicle data and no occupancy data *)
(* is available.  pending holds the requests in flight: they complete in   *)
(* any order.  At most MaxCalls decoder calls are made and at most         *)
(* MaxInFlight requests are in flight at a time.                           *)
(***************************************************************************)
MaxStops == 2

MaxCalls == 3

MaxInFlight == 2

StopStrings ==
    { <<"[", "1", ":", "1", "]">>,
    <<"@", "A", "[", "2", ",", "L", "K", ")", "]">>, <<" ">> }

ApiResponses == UNION {[1..n -> StopStrings] : n \in 0..MaxStops}

RemoveAt(seq, i) == SubSeq(seq, 1, i - 1) \o SubSeq(seq, i + 1, Len(seq))

(* formationsAtScheduledStops.filter(fs => formationShortString?.trim()) *)
ValidStops(response) ==
  SelectSeq([i \in 1..Len(response) |-> i],
            LAMBDA i : Trim(response[i]) # <<>>)

(* processFormationData(response, occupancyData = null, stopIndex) *)
processFormationData(response, stopIndex) ==
  LET stops == ValidStops(response)
      firstValidStopIndex == IF stopIndex >= Len(stops) THEN 0 ELSE stopIndex
  IN  IF Len(response) = 0 \/ Len(stops) = 0
        THEN /\ currentFormation' = Null
             /\ UNCHANGED <<currentStopIndex, formationString, sections, pc,
                            decodeLog>>
        ELSE LET str == response[stops[firstValidStopIndex + 1]]
                 result == parseFormationString(str)
             IN  /\ currentStopIndex' = firstValidStopIndex
                 /\ formationString' = str
                 /\ sections' = result
                 /\ pc' = "decoded"
                 /\ decodeLog' = Append(decodeLog, [input |-> str,
                                                    output |-> result])
                 /\ currentFormation' =
                      [currentStop |-> stops[firstValidStopIndex + 1],
                       stops |-> stops, sections |-> result]

InitService ==
  /\ formationString = <<>>
  /\ sections = <<>>
  /\ pc = "idle"
  /\ NoDirection
  /\ Constructed

(* getFormation(params): the request is sent; response is what the API     *)
(* will answer.                                                            *)
getFormation(response) ==
  /\ Len(decodeLog) + Len(pending) < MaxCalls
  /\ Len(pending) < MaxInFlight
  /\ currentFormation' = Null
  /\ pending' = Append(pending, [kind |-> "http", response |-> response,
                                 stopIndex |-> 0])
  /\ UNCHANGED <<formationString, sections, pc, firstVehicle, travelDirection,
                 decodeLog, lastApiResponse, currentStopIndex, selectedStop>>
  /\ UNCHANGED loopAndHttpVars

(* The API answers: tap() caches the response, switchMap() starts the      *)
(* occupancy lookup.                                                       *)
HttpResponse(i) ==
  /\ pending[i].kind = "http"
  /\ lastApiResponse' = pending[i].response
  /\ selectedStop' = -1
  /\ pending' = [pending EXCEPT ![i].kind = "occupancyOfGet"]
  /\ UNCHANGED <<formationString, sections, pc, firstVehicle, travelDirection,
                 decodeLog, currentStopIndex, currentFormation>>
  /\ UNCHANGED loopAndHttpVars

(* The occupancy lookup of getFormation completes: map() processes the     *)
(* response it was started for.                                            *)
OccupancyOfGet(i) ==
  /\ pending[i].kind = "occupancyOfGet"
  /\ processFormationData(pending[i].response, 0)
  /\ pending' = RemoveAt(pending, i)
  /\ selectedStop' = -1
  /\ UNCHANGED <<firstVehicle, travelDirection, lastApiResponse>>
  /\ UNCHANGED loopAndHttpVars

updateSelectedStop(index) ==
  /\ Len(decodeLog) + Len(pending) < MaxCalls
  /\ Len(pending) < MaxInFlight
  /\ ~(lastApiResponse = Null \/ index < 0 \/ index >= Len(lastApiResponse))
  /\ currentStopIndex' = index
  /\ selectedStop' = index
  /\ pending' = Append(pending, [kind |-> "occupancyOfUpdate",
                                 response |-> Null, stopIndex |-> index])
  /\ UNCHANGED <<formationString, sections, pc, firstVehicle, travelDirection,
                 decodeLog, lastApiResponse, currentFormation>>
  /\ UNCHANGED loopAndHttpVars

(* The occupancy lookup of updateSelectedStop completes: the subscriber    *)
(* processes the response cached at that moment.                           *)
OccupancyOfUpdate(i) ==
  /\ pending[i].kind = "occupancyOfUpdate"
  /\ processFormationData(lastApiResponse, pending[i].stopIndex)
  /\ pending' = RemoveAt(pending, i)
  /\ UNCHANGED <<firstVehicle, travelDirection, lastApiResponse, selectedStop>>
  /\ UNCHANGED loopAndHttpVars

NextService ==
  \/ \E response \in ApiResponses : getFormation(response)
  \/ \E i \in DOMAIN pending : HttpResponse(i)
  \/ \E i \in DOMAIN pending : OccupancyOfGet(i)
  \/ \E index \in 0..(MaxStops - 1) : updateSelectedStop(index)
  \/ \E i \in DOMAIN pending : OccupancyOfUpdate(i)

SpecService == InitService /\ [][NextService]_vars

(***************************************************************************)
(* Bracket groups whose parentheses stand between the vehicles: one group  *)
(* in sector A, alone or followed by a group in sector B.                  *)
(***************************************************************************)
MaxGroupItems == 3

GroupItems ==
    { <<"1", ":", "1">>, <<"(", "2", ":", "2", ")">>, <<"(", "1", ":", "3">>,
    <<"2", ":", "4", ")">>, <<"L", "K">>, <<"%", "W", "2">> }

FollowingGroups ==
    { <<>>, <<"@", "B", "[", "1", ":", "5", "]">> }

ParenthesisGroupStrings ==
  {<<"@", "A", "[">> \o JoinComma(ts) \o <<"]">> \o following :
     ts \in UNION {[1..n -> GroupItems] : n \in 1..MaxGroupItems},
     following \in FollowingGroups}

InitParenthesis ==
  /\ formationString \in ParenthesisGroupStrings
  /\ sections = <<>>
  /\ pc = "received"
  /\ NoDirection
  /\ Constructed

SpecParenthesis == InitParenthesis /\ [][Next]_vars

(***************************************************************************)
(* Formation strings of one vehicle token: a prefix, a type code or a      *)
(* letter that is none, and a tail with ordinal number and offer list.     *)
(***************************************************************************)
TypedTokenStrings ==
  {open \o prefix \o code \o tail \o close :
     open \in   { <<>>, <<"[">>, <<"@", "A", "[">> },
     close \in   { <<>>, <<"]">> },
     prefix \in   { <<>>, <<"-">>, <<"-", ">">>, <<"%">>, <<"A">> },
     code \in   { <<"1">>, <<"2">>, <<"1", "2">>, <<"C", "C">>, <<"F", "A">>,
    <<"F", "Z">>, <<"W", "L">>, <<"W", "R">>, <<"W", "1">>, <<"W", "2">>,
    <<"L", "K">>, <<"D">>, <<"K">>, <<"X">>, <<"A">> },
     tail \in   { <<>>, <<":", "2">>, <<":", "1", "2">>, <<":", "1", "#", "N", "F">>,
    <<":", "3", "#", "F", "Z">>, <<"#", "K", "W">>,
    <<":", "2", "1", "#", "B", "H", "P", ";", "W", "L">> }}

InitTyped ==
  /\ formationString \in TypedTokenStrings
  /\ sections = <<>>
  /\ pc = "received"
  /\ NoDirection
  /\ Constructed

SpecTyped == InitTyped /\ [][Next]_vars

(***************************************************************************)
(* The bracket loop of processSegment as a state machine, for a segment in *)
(* the default sector at position 0: one step per iteration of the while   *)
(* loop, and one for the loop's exit and the tokens outside of brackets.   *)
(* sections holds the entries of sectorMap.                                *)
(***************************************************************************)
MaxSegmentPieces == 6

SegmentStrings ==
  {Concat(ps) : ps \in UNION {[1..n ->   { <<"[">>, <<"]">>, <<"1">>, <<",">> }] : n \in 0..MaxSegmentPieces}}

InitConstructed ==
  /\ formationString = <<>>
  /\ sections = <<>>
  /\ pc = "constructed"
  /\ NoDirection
  /\ Constructed

(* processSegment is entered with a segment and an empty sectorMap. *)
EnterSegment ==
  /\ pc = "constructed"
  /\ formationString' \in SegmentStrings
  /\ loopSegment' = formationString'
  /\ loopBracketContent' = Null
  /\ sections' = <<>>
  /\ pc' = "draining"
  /\ UNCHANGED <<firstVehicle, travelDirection, decodeLog, requests,
                 loadingCount, loading>>
  /\ UNCHANGED serviceVars

(* An iteration of the while loop: extractBracketContent returned a group. *)
DrainGroup ==
  /\ pc = "draining"
  /\ extractBracketContent(loopSegment, "[", "]") # Null
  /\ loopBracketContent' = extractBracketContent(loopSegment, "[", "]")
  /\ sections' =
       AddGroup([position |-> Len(Flatten(sections)), sectorMap |-> sections], "",
                parseVehicleGroup(extractBracketContent(loopSegment, "[", "]"),
                                  "", Len(Flatten(sections)))).sectorMap
  /\ loopSegment' = RemoveProcessedGroup(loopSegment)
  /\ UNCHANGED <<formationString, pc, firstVehicle, travelDirection, decodeLog,
                 requests, loadingCount, loading>>
  /\ UNCHANGED serviceVars

(* extractBracketContent returned null: the loop is left and the tokens    *)
(* outside of brackets are read.                                           *)
LeaveLoop ==
  /\ pc = "draining"
  /\ extractBracketContent(loopSegment, "[", "]") = Null
  /\ loopBracketContent' = Null
  /\ sections' =
       OutsideOfBrackets([segment |-> loopSegment,
                          position |-> Len(Flatten(sections)),
                          sectorMap |-> sections], "").sectorMap
  /\ pc' = "processed"
  /\ UNCHANGED <<formationString, loopSegment, firstVehicle, travelDirection,
                 decodeLog, requests, loadingCount, loading>>
  /\ UNCHANGED serviceVars

Iteration == DrainGroup \/ LeaveLoop

NextSegment == EnterSegment \/ Iteration

SpecSegment == InitConstructed /\ [][NextSegment]_vars

(* Weak fairness of Iteration, WF_vars(Iteration), with                    *)
(* ENABLED <<Iteration>>_vars written out: an iteration or the exit is     *)
(* possible exactly while the loop is running.                             *)
IterationWeaklyFair == []<>(pc # "draining") \/ []<><<Iteration>>_vars

(* The loop runs to its end: a while loop is not suspended. *)
SpecSegmentFair == SpecSegment /\ IterationWeaklyFair

(***************************************************************************)
(* The HTTP interceptors: ErrorInterceptor around LoadingInterceptor, in   *)
(* the order of withInterceptors([auth, error, loading]). A request is     *)
(* [phase, errors, reissues, apiError]: errors are the statuses of its     *)
(* failed attempts, so Len(errors) is the index concatMap hands to the     *)
(* next error.                                                             *)
(***************************************************************************)
MaxRequests == 2

MAX_RETRIES == 3

RETRYABLE_STATUS_CODES == {500, 502, 503, 504}

(* The statuses an attempt fails with; 0 is a network failure. *)
ErrorStatuses == {0, 404, 429, 500, 503}

(* A retry decision that also retries a rate-limited request. *)
shouldRetryRateLimited(status) == status \in RETRYABLE_STATUS_CODES \cup {429}

shouldRetry(status) == status \in RETRYABLE_STATUS_CODES

(* formatError with createApiError: technicalDetails is the custom text or *)
(* `HTTP ${statusCode}: ${error.message}`.                                 *)
formatError(status) ==
  IF status = 400
    THEN [statusCode |-> status,
          message |-> "No train formation data available. Please check your search parameters.",
          technicalDetails |-> <<"HTTP", status, "error.message">>]
  ELSE IF status = 401
    THEN [statusCode |-> status,
          message |-> "Authentication failed. Please check your API key.",
          technicalDetails |-> <<"HTTP", status, "error.message">>]
  ELSE IF status = 403
    THEN [statusCode |-> status,
          message |-> "Access to this API has been disallowed.",
          technicalDetails |-> <<"HTTP", status, "error.message">>]
  ELSE IF status = 404
    THEN [statusCode |-> status,
          message |-> "Train formation data not found. The train might not exist for the specified date.",
          technicalDetails |-> <<"HTTP", status, "error.message">>]
  ELSE IF status = 429
    THEN [statusCode |-> status,
          message |-> "Rate limit exceeded. Please wait 1 minute before trying again (maximum 5 requests per minute allowed).",
          technicalDetails |-> <<"Rate Limit Exceeded">>]
  ELSE IF status \in {500, 502, 503, 504}
    THEN [statusCode |-> status,
          message |-> "Server error occurred. The request has been automatically retried.",
          technicalDetails |-> <<"HTTP", status, "error.message">>]
  ELSE [statusCode |-> IF status # 0 THEN status ELSE 500,
        message |-> "An unexpected error occurred. Please try again later.",
        technicalDetails |-> <<"error.message">>]

(* this.loadingCount++ *)
incrementLoading(count) == count + 1

(* Math.max(0, this.loadingCount - 1) *)
decrementLoading(count) == IF count - 1 > 0 THEN count - 1 ELSE 0

(* updateLoadingState: the value loadingSubject holds afterwards. *)
updateLoadingState(count) == count > 0

(* Both intercept methods run when the request is subscribed: the loading  *)
(* counter is incremented once, here.                                      *)
StartRequest ==
  /\ Len(requests) < MaxRequests
  /\ requests' = Append(requests, [phase |-> "inFlight", errors |-> <<>>,
                                   reissues |-> 0, apiError |-> Null])
  /\ loadingCount' = incrementLoading(loadingCount)
  /\ loading' = updateLoadingState(loadingCount')
  /\ UNCHANGED <<formationString, sections, pc, firstVehicle, travelDirection,
                 decodeLog, loopSegment, loopBracketContent>>
  /\ UNCHANGED serviceVars

(* The attempt in flight completes: finalize decrements. *)
RequestSucceeds(i) ==
  /\ requests[i].phase = "inFlight"
  /\ requests' = [requests EXCEPT ![i].phase = "succeeded"]
  /\ loadingCount' = decrementLoading(loadingCount)
  /\ loading' = updateLoadingState(loadingCount')
  /\ UNCHANGED <<formationString, sections, pc, firstVehicle, travelDirection,
                 decodeLog, loopSegment, loopBracketContent>>
  /\ UNCHANGED serviceVars

(* The attempt in flight fails: finalize decrements, then concatMap either *)
(* starts the retry timer or throws the formatted error.                   *)
RequestFails(i, status) ==
  /\ requests[i].phase = "inFlight"
  /\ requests' =
       IF Len(requests[i].errors) < MAX_RETRIES /\ shouldRetry(status)
         THEN [requests EXCEPT ![i].phase = "waiting",
                               ![i].errors = Append(@, status)]
         ELSE [requests EXCEPT ![i].phase = "failed",
                               ![i].errors = Append(@, status),
                               ![i].apiError = formatError(status)]
  /\ loadingCount' = decrementLoading(loadingCount)
  /\ loading' = updateLoadingState(loadingCount')
  /\ UNCHANGED <<formationString, sections, pc, firstVehicle, travelDirection,
                 decodeLog, loopSegment, loopBracketContent>>
  /\ UNCHANGED serviceVars

(* The retry timer fires: retryWhen subscribes again to the observable     *)
(* LoadingInterceptor returned, intercept is not called again.             *)
RetryFires(i) ==
  /\ requests[i].phase = "waiting"
  /\ requests' = [requests EXCEPT ![i].phase = "inFlight",
                                  ![i].reissues = @ + 1]
  /\ UNCHANGED <<formationString, sections, pc, firstVehicle, travelDirection,
                 decodeLog, loopSegment, loopBracketContent, loadingCount,
                 loading>>
  /\ UNCHANGED serviceVars

(* The subscriber unsubscribes: finalize runs for an attempt in flight,    *)
(* and has already run when the retry timer is pending.                    *)
CancelRequest(i) ==
  /\ requests[i].phase \in {"inFlight", "waiting"}
  /\ requests' = [requests EXCEPT ![i].phase = "cancelled"]
  /\ loadingCount' = IF requests[i].phase = "inFlight"
                       THEN decrementLoading(loadingCount)
                       ELSE loadingCount
  /\ loading' = updateLoadingState(loadingCount')
  /\ UNCHANGED <<formationString, sections, pc, firstVehicle, travelDirection,
                 decodeLog, loopSegment, loopBracketContent>>
  /\ UNCHANGED serviceVars

NextHttp ==
  \/ StartRequest
  \/ \E i \in 1..Len(requests) : RequestSucceeds(i)
  \/ \E i \in 1..Len(requests) : \E status \in ErrorStatuses : RequestFails(i, status)
  \/ \E i \in 1..Len(requests) : RetryFires(i)
  \/ \E i \in 1..Len(requests) : CancelRequest(i)

SpecHttp == InitConstructed /\ [][NextHttp]_vars

(***************************************************************************)
(* Properties of the decoder                                               *)
(***************************************************************************)
Decoded == pc = "decoded"

(* The flattened output: the wagons of the returned sections, in section order. *)
AllWagons == Flatten(sections)

IsLocomotive(wagon) == wagon.type = "locomotive"

Pairs == 1..(Len(AllWagons) - 1)

(* C1: for every two consecutive wagons A, B of the flattened output that  *)
(* are both no locomotive, A.noAccessToNext equals B.noAccessToPrevious.   *)
C1_AdjacentFlagsSymmetric ==
  Decoded =>
    \A i \in Pairs :
      ~IsLocomotive(AllWagons[i]) /\ ~IsLocomotive(AllWagons[i + 1])
        => AllWagons[i].noAccessToNext = AllWagons[i + 1].noAccessToPrevious

(* A pair of coaches where only the first was written with a closing       *)
(* parenthesis and both carry the flag after decoding.                     *)
C1_Witness ==
  /\ Decoded
  /\ \E i \in Pairs :
       /\ ~IsLocomotive(AllWagons[i]) /\ ~IsLocomotive(AllWagons[i + 1])
       /\ EndsWith(AllWagons[i].raw, <<")">>)
       /\ ~StartsWith(AllWagons[i + 1].raw, <<"(">>)
       /\ AllWagons[i].noAccessToNext
       /\ AllWagons[i + 1].noAccessToPrevious

(* C2: the positions of the flattened output are exactly 0, 1, ..., N-1 in *)
(* that order.                                                             *)
C2_PositionsContiguous ==
  Decoded => \A i \in 1..Len(AllWagons) : AllWagons[i].position = i - 1

(* Wagons decoded from a string in which a fictitious 'F' written outside  *)
(* of brackets used up the first provisional position: the first wagon,    *)
(* parsed at position 1, is returned at position 0.                        *)
C2_Witness ==
  /\ Decoded
  /\ StartsWith(formationString, <<"@", "A", "F", ",">>)
  /\ Len(AllWagons) >= 1
  /\ AllWagons[1].position = 0
  /\ \A i \in 1..Len(AllWagons) : AllWagons[i].raw # <<"F">>

(* The number of places at which the text p is written in the string s. *)
Occurrences(s, p) == Cardinality({i \in 0..(Len(s) - Len(p)) : MatchAt(s, p, i)})

WrittenOnce(wagon) == Occurrences(formationString, wagon.raw) = 1

WrittenAt(wagon) == IndexOf(formationString, wagon.raw)

(* C3: final positions follow the written order of the formation string:   *)
(* of two returned wagons whose tokens are each written exactly once, the  *)
(* one with the smaller position is not written after the other.           *)
C3_PositionsFollowWrittenOrder ==
  Decoded =>
    \A i, j \in 1..Len(AllWagons) :
      /\ AllWagons[i].position < AllWagons[j].position
      /\ WrittenOnce(AllWagons[i])
      /\ WrittenOnce(AllWagons[j])
      => WrittenAt(AllWagons[i]) <= WrittenAt(AllWagons[j])

(* C4 as stated, for the coaches next to a locomotive: a coach immediately *)
(* before or after a locomotive has both flags false.                      *)
C4_BothFlagsClearNextToLocomotive ==
  Decoded =>
    \A i \in 1..Len(AllWagons) :
      /\ ~IsLocomotive(AllWagons[i])
      /\ \/ i > 1 /\ IsLocomotive(AllWagons[i - 1])
         \/ i < Len(AllWagons) /\ IsLocomotive(AllWagons[i + 1])
      => ~AllWagons[i].noAccessToPrevious /\ ~AllWagons[i].noAccessToNext

(* C4, amended: a wagon immediately before a locomotive has noAccessToNext *)
(* false and a wagon immediately after a locomotive has noAccessToPrevious *)
(* false: the flag facing the locomotive is clear.                         *)
C4_FacingFlagClearNextToLocomotive ==
  Decoded =>
    \A i \in 1..Len(AllWagons) :
      /\ (i < Len(AllWagons) /\ IsLocomotive(AllWagons[i + 1])
            => ~AllWagons[i].noAccessToNext)
      /\ (i > 1 /\ IsLocomotive(AllWagons[i - 1])
            => ~AllWagons[i].noAccessToPrevious)

(* A coach written with a closing parenthesis stands immediately before a  *)
(* locomotive: the flag its token set has been cleared.                    *)
C4_Witness ==
  /\ Decoded
  /\ \E i \in Pairs :
       /\ ~IsLocomotive(AllWagons[i])
       /\ EndsWith(AllWagons[i].raw, <<")">>)
       /\ IsLocomotive(AllWagons[i + 1])
       /\ ~AllWagons[i].noAccessToNext

(* C5: every locomotive of the output has noAccessToPrevious = false and   *)
(* noAccessToNext = false.                                                 *)
C5_LocomotiveCarriesNoFlag ==
  Decoded =>
    \A i \in 1..Len(AllWagons) :
      IsLocomotive(AllWagons[i])
        => ~AllWagons[i].noAccessToPrevious /\ ~AllWagons[i].noAccessToNext

(* C6: every locomotive of the output has an empty statusCodes list.       *)
C6_LocomotiveCarriesNoStatus ==
  Decoded =>
    \A i \in 1..Len(AllWagons) :
      IsLocomotive(AllWagons[i]) => AllWagons[i].statusCodes = <<>>

(* A locomotive whose token carried a status character. *)
C6_Witness ==
  /\ Decoded
  /\ \E i \in 1..Len(AllWagons) :
       /\ IsLocomotive(AllWagons[i])
       /\ parseWagonStatus(AllWagons[i].raw) # <<>>

(* The index at which the marker of a sector is first written; the default *)
(* sector, which no marker names, precedes every marker.                   *)
FirstWrittenAt(sector) ==
  IF sector = "" THEN -1 ELSE IndexOf(formationString, <<"@", sector>>)

(* C7: no returned section is empty, no two returned sections have the     *)
(* same sector, and the sections are listed in the order in which their    *)
(* sectors first appear in the formation string.                           *)
C7_SectionsInFirstSeenOrder ==
  Decoded =>
    /\ \A k \in 1..Len(sections) :
         /\ Len(sections[k].wagons) > 0
         /\ sections[k].sector # "" => FirstWrittenAt(sections[k].sector) >= 0
    /\ \A k, l \in 1..Len(sections) :
         k < l => /\ sections[k].sector # sections[l].sector
                  /\ FirstWrittenAt(sections[k].sector)
                       < FirstWrittenAt(sections[l].sector)

(* The marker of sector A is written twice, with sector B in between: the  *)
(* output lists A before B although the wagon of B is written first.       *)
C7_Witness ==
  /\ Decoded
  /\ Occurrences(formationString, <<"@", "A">>) = 2
  /\ Len(sections) = 2
  /\ sections[1].sector = "A"
  /\ sections[2].sector = "B"
  /\ WrittenAt(sections[2].wagons[1]) < WrittenAt(sections[1].wagons[1])

(* C8 as stated, for a string that is not blank: without '@', decode       *)
(* returns exactly one section, and its sector is the default sector.      *)
C8_ExactlyOneDefaultSection ==
  Decoded /\ ~Includes(formationString, <<"@">>) /\ Trim(formationString) # <<>>
    => Len(sections) = 1 /\ sections[1].sector = ""

(* C8, amended: without '@', decode returns at most one section; a section *)
(* it returns has the default sector, and so has each of its wagons.       *)
C8_AtMostOneDefaultSection ==
  Decoded /\ ~Includes(formationString, <<"@">>)
    => /\ Len(sections) <= 1
       /\ \A k \in 1..Len(sections) :
            /\ sections[k].sector = ""
            /\ \A j \in 1..Len(sections[k].wagons) :
                 sections[k].wagons[j].sector = ""

(* A string without '@' that decodes to one section of two wagons. *)
C8_Witness ==
  /\ Decoded
  /\ ~Includes(formationString, <<"@">>)
  /\ Len(sections) = 1
  /\ Len(sections[1].wagons) = 2

(* The tokens of a token list that are classified as Vehicle. *)
VehicleTokens(tokens) == SelectSeq(tokens, LAMBDA t : t.type = "VEHICLE")

(* The tokens written outside of brackets that pass the potential-wagon    *)
(* predicate; a lone 'F' is the fictitious wagon, no vehicle.              *)
VehicleTokensOutside(segment) ==
  SelectSeq(OutsideTokens(segment),
            LAMBDA t : Trim(t) # <<"F">> /\ isPotentialWagonToken(Trim(t)))

(* The number of Vehicle-classified tokens of one segment: those of each   *)
(* bracket group the segment processor drains, and those outside brackets. *)
RECURSIVE VehicleTokenCountOfSegment(_)
VehicleTokenCountOfSegment(segment) ==
  LET bracketContent == extractBracketContent(segment, "[", "]")
  IN  IF bracketContent = Null
        THEN Len(VehicleTokensOutside(segment))
        ELSE Len(VehicleTokens(tokenizeFormationString(bracketContent)))
               + VehicleTokenCountOfSegment(RemoveProcessedGroup(segment))

RECURSIVE SumOverSegments(_)
SumOverSegments(segments) ==
  IF segments = <<>> THEN 0
  ELSE (IF Trim(Head(segments)) = <<>> THEN 0
        ELSE VehicleTokenCountOfSegment(SegmentBody(Head(segments))))
       + SumOverSegments(Tail(segments))

VehicleTokenCount(str) ==
  IF Trim(str) = <<>> THEN 0
  ELSE IF hasSectors(str) THEN SumOverSegments(SplitSectorSegments(str))
  ELSE VehicleTokenCountOfSegment(MainGroupContent(str))

(* C9: the number of tokens classified as Vehicle, summed over all         *)
(* segments, equals the number of wagons of the returned sections.         *)
C9_WagonCountIsVehicleTokenCount ==
  Decoded => Len(AllWagons) = VehicleTokenCount(formationString)

(* C10: a fictitious-wagon marker 'F' never produces a wagon: no wagon of  *)
(* the returned sections was decoded from the token 'F'.                   *)
C10_FictitiousYieldsNoWagon ==
  Decoded => \A i \in 1..Len(AllWagons) : AllWagons[i].raw # <<"F">>

(***************************************************************************)
(* Properties of the vehicle token decoder                                 *)
(***************************************************************************)
Wagons == 1..Len(AllWagons)

HasFamilyPattern(token) ==
  \E i \in 1..(Len(token) - 1) :
    token[i] = "F" /\ token[i + 1] \in {"A", "Z"}

(* C11: the classes of every decoded wagon are '1' and '2' only, each at   *)
(* most once, and a wagon whose token contains FA or FZ has classes        *)
(* exactly ['2'].                                                          *)
C11_ClassesWithinOneAndTwo ==
  Decoded => \A i \in Wagons :
    LET classes == AllWagons[i].classes
    IN  /\ \A k \in 1..Len(classes) : classes[k] \in {"1", "2"}
        /\ \A j, k \in 1..Len(classes) : j # k => classes[j] # classes[k]
        /\ HasFamilyPattern(AllWagons[i].raw) => classes = <<"2">>

(* A wagon decoded from a token that starts with the class digit 1 and     *)
(* contains FZ, and a wagon of both classes.                               *)
C11_Witness ==
  /\ Decoded
  /\ \E i \in Wagons :
       /\ HasFamilyPattern(AllWagons[i].raw)
       /\ Head(AllWagons[i].raw) = "1"
       /\ AllWagons[i].classes = <<"2">>
  /\ \E i \in Wagons : AllWagons[i].classes = <<"1", "2">>

(***************************************************************************)
(* Properties of the travel direction resolver                             *)
(***************************************************************************)
Resolved == pc = "resolved"

(* The non-blank sectors of the decoded sections, in returned order. *)
VisualSectors ==
  SelectSeq([k \in 1..Len(sections) |-> sections[k].sector],
            LAMBDA sector : sector \notin {"", " "})

(* The trimmed, non-empty entries of the vehicle's comma-separated sector  *)
(* field.                                                                  *)
VehicleSectorSet ==
  IF firstVehicle.sectors = Null THEN {}
  ELSE LET parts == SplitOn(firstVehicle.sectors, {","}, <<>>)
       IN  {Trim(parts[k]) : k \in 1..Len(parts)} \ {<<>>}

(* C12: the direction is 'left' if the vehicle's sectors contain the first *)
(* visual sector, otherwise 'right' if they contain the last one,          *)
(* otherwise 'unknown'; it is 'unknown' whenever the visual sectors or the *)
(* vehicle's sectors are empty.                                            *)
C12_DirectionFollowsEdgeSectors ==
  Resolved =>
    travelDirection =
      IF VisualSectors = <<>> \/ VehicleSectorSet = {} THEN "unknown"
      ELSE IF <<VisualSectors[1]>> \in VehicleSectorSet THEN "left"
      ELSE IF <<VisualSectors[Len(VisualSectors)]>> \in VehicleSectorSet
        THEN "right"
      ELSE "unknown"

(* Visual sectors A, C, B in written order and a vehicle in sector B:      *)
(* the direction is 'right'.                                               *)
C12_Witness ==
  /\ Resolved
  /\ VisualSectors = <<"A", "C", "B">>
  /\ firstVehicle.sectors = <<"B">>
  /\ travelDirection = "right"

IsBlank(str) == \A i \in 1..Len(str) : str[i] = " "

(* C14: an empty or whitespace-only formation string decodes to the empty  *)
(* section list, and the direction resolved for it is 'unknown'.           *)
C14_BlankYieldsNothing ==
  IsBlank(formationString) =>
    /\ pc \in {"decoded", "resolved"} => sections = <<>>
    /\ Resolved => travelDirection = "unknown"

(* A whitespace-only string, decoded and resolved for a vehicle that has   *)
(* a sector.                                                               *)
C14_Witness ==
  /\ Resolved
  /\ formationString = <<" ", " ">>
  /\ firstVehicle.sectors = <<"A">>
  /\ sections = <<>>

Contains(token, char) == \E i \in 1..Len(token) : token[i] = char

ContainsPair(token, a, b) ==
  \E i \in 1..(Len(token) - 1) : token[i] = a /\ token[i + 1] = b

IsClosedToken(token) ==
  \/ (token # <<>> /\ Head(token) = "-")
  \/ ContainsPair(token, "(", "-")
  \/ ContainsPair(token, "@", "-")

StatusSet(wagon) == {wagon.statusCodes[k] : k \in 1..Len(wagon.statusCodes)}

(* C15: a wagon whose token starts with '-' or contains '(-' or '@-' has   *)
(* statusCodes exactly [Closed]; any other wagon has Group boarding iff    *)
(* its token contains '>', Reserved for transit iff it contains '=', and   *)
(* Unserviced iff it contains '%', and nothing else.  A locomotive's       *)
(* status is cleared afterwards, so the wagons looked at are the others.   *)
C15_StatusFollowsMarkers ==
  Decoded => \A i \in Wagons :
    ~IsLocomotive(AllWagons[i]) =>
      IF IsClosedToken(AllWagons[i].raw)
        THEN AllWagons[i].statusCodes = <<CLOSED>>
        ELSE /\ StatusSet(AllWagons[i]) \subseteq
                  {GROUP_BOARDING, RESERVED_FOR_TRANSIT, UNSERVICED}
             /\ GROUP_BOARDING \in StatusSet(AllWagons[i])
                  <=> Contains(AllWagons[i].raw, ">")
             /\ RESERVED_FOR_TRANSIT \in StatusSet(AllWagons[i])
                  <=> Contains(AllWagons[i].raw, "=")
             /\ UNSERVICED \in StatusSet(AllWagons[i])
                  <=> Contains(AllWagons[i].raw, "%")

(* A closed wagon whose token also carries '>', next to a wagon that is    *)
(* open for group boarding and reserved for transit.                       *)
C15_Witness ==
  /\ Decoded
  /\ \E i \in Wagons :
       /\ IsClosedToken(AllWagons[i].raw)
       /\ Contains(AllWagons[i].raw, ">")
       /\ AllWagons[i].statusCodes = <<CLOSED>>
  /\ \E i \in Wagons :
       AllWagons[i].statusCodes = <<GROUP_BOARDING, RESERVED_FOR_TRANSIT>>

AttributeCodes(wagon) ==
  [k \in 1..Len(wagon.attributes) |-> wagon.attributes[k].code]

(* C16: no decoded wagon has two attributes with the same code. *)
C16_AttributeCodesUnique ==
  Decoded => \A i \in Wagons :
    \A j, k \in 1..Len(AllWagons[i].attributes) :
      j # k => AllWagons[i].attributes[j].code # AllWagons[i].attributes[k].code

(* A wagon whose own offer list names NF, last of a group whose trailing   *)
(* list names NF twice and BZ: it carries NF and BZ once each.             *)
C16_Witness ==
  /\ Decoded
  /\ EndsWith(formationString,
              <<"#", "N", "F", ";", "B", "Z", ";", "N", "F", "]">>)
  /\ \E i \in Wagons :
       /\ AllWagons[i].raw = <<"2", ":", "2", "#", "N", "F">>
       /\ AttributeCodes(AllWagons[i]) = << <<"N", "F">>, <<"B", "Z">> >>

(***************************************************************************)
(* Properties of the vehicle group decoder                                 *)
(***************************************************************************)
(* The formation string is one bracket group behind the sector marker @A,  *)
(* and the group's content holds no bracket and no marker.                 *)
IsSingleGroup ==
  /\ Len(formationString) >= 4
  /\ SubSeq(formationString, 1, 3) = <<"@", "A", "[">>
  /\ formationString[Len(formationString)] = "]"
  /\ \A i \in 4..(Len(formationString) - 1) :
       formationString[i] \notin {"[", "]", "@"}

GroupContent == SubSeq(formationString, 4, Len(formationString) - 1)

(* The index of the first ')' of the content, 0 without one. *)
FirstClose ==
  IF \E i \in 1..Len(GroupContent) : GroupContent[i] = ")"
    THEN CHOOSE i \in 1..Len(GroupContent) :
           /\ GroupContent[i] = ")"
           /\ \A j \in 1..(i - 1) : GroupContent[j] # ")"
    ELSE 0

(* The first parenthesised span starts where the content starts. *)
SpanOpensContent ==
  GroupContent # <<>> /\ Head(GroupContent) = "(" /\ FirstClose > 0

(* That span also ends where the content ends. *)
SpanClosesContent == SpanOpensContent /\ FirstClose = Len(GroupContent)

(* C17: when the content of a bracket group begins with the '(' of its     *)
(* first parenthesised span, the first wagon decoded from the group has    *)
(* noAccessToPrevious = true; when the content ends with the ')' of that   *)
(* span, the last wagon decoded from the group has noAccessToNext = true.  *)
(* Stated for groups without a locomotive, whose flags the finalizer       *)
(* clears, and without a wagon decoded from 'F'.                           *)
C17_GroupBoundaryFlags ==
  /\ Decoded
  /\ IsSingleGroup
  /\ AllWagons # <<>>
  /\ \A i \in Wagons :
       ~IsLocomotive(AllWagons[i]) /\ AllWagons[i].raw # <<"F">>
  => /\ SpanOpensContent => AllWagons[1].noAccessToPrevious
     /\ SpanClosesContent => AllWagons[Len(AllWagons)].noAccessToNext

(* The codes of the group-level attributes of the single group. *)
GroupCodes ==
  {GroupAttributes(GroupContent)[k].code :
     k \in 1..Len(GroupAttributes(GroupContent))}

CodeSet(wagon) == {wagon.attributes[k].code : k \in 1..Len(wagon.attributes)}

(* A wagon decoded from a vehicle token of the group: not from 'F' and not *)
(* from the text of the trailing suffix, which starts with ':' or '#'.     *)
IsRealWagon(wagon) ==
  wagon.raw # <<"F">> /\ Head(wagon.raw) \notin {":", "#"}

RealWagons == {i \in Wagons : IsRealWagon(AllWagons[i])}

(* The codes a wagon carries without its own token naming them. *)
CodesFromGroup(wagon) ==
  {code \in CodeSet(wagon) \cap GroupCodes : ~Includes(wagon.raw, code)}

(* C18: the group-level trailing attributes are added to the last real     *)
(* (non-fictitious) wagon of the group and to no other wagon.              *)
C18_GroupAttributesOnLastRealWagon ==
  Decoded /\ IsSingleGroup /\ GroupCodes # {} /\ RealWagons # {} =>
    LET last == CHOOSE i \in RealWagons : \A j \in RealWagons : j <= i
    IN  /\ GroupCodes \subseteq CodeSet(AllWagons[last])
        /\ \A i \in Wagons \ {last} : CodesFromGroup(AllWagons[i]) = {}

(***************************************************************************)
(* Properties of the finalizer's locomotive rule                           *)
(***************************************************************************)
(* C20: for every two consecutive wagons of the flattened output of which  *)
(* at least one is a locomotive, the first has noAccessToNext = false and  *)
(* the second has noAccessToPrevious = false.                              *)
C20_FlagsClearAcrossLocomotivePair ==
  Decoded => \A i \in Pairs :
    IsLocomotive(AllWagons[i]) \/ IsLocomotive(AllWagons[i + 1])
      => /\ ~AllWagons[i].noAccessToNext
         /\ ~AllWagons[i + 1].noAccessToPrevious

(* A locomotive whose token ends with ')', followed by another wagon: the  *)
(* flag the token set is cleared.                                          *)
C20_Witness ==
  /\ Decoded
  /\ \E i \in Pairs :
       /\ IsLocomotive(AllWagons[i])
       /\ EndsWith(AllWagons[i].raw, <<")">>)
       /\ ~IsLocomotive(AllWagons[i + 1])
       /\ ~AllWagons[i].noAccessToNext

(***************************************************************************)
(* Properties of decoding with and without sector markers                  *)
(***************************************************************************)
(* The fields of a wagon other than its position and its sector. *)
WagonFields(wagon) ==
  [type |-> wagon.type, number |-> wagon.number, classes |-> wagon.classes,
   attributes |-> wagon.attributes, statusCodes |-> wagon.statusCodes,
   noAccessToPrevious |-> wagon.noAccessToPrevious,
   noAccessToNext |-> wagon.noAccessToNext]

WagonsOf(sectionList) ==
  LET allWagons == Flatten(sectionList)
  IN  [i \in 1..Len(allWagons) |-> WagonFields(allWagons[i])]

(* Both calls are made: S without markers, then '@A' + S. *)
BothDecoded ==
  /\ Decoded
  /\ Len(decodeLog) = 2
  /\ ~Includes(decodeLog[1].input, <<"@">>)
  /\ decodeLog[2].input = <<"@", "A">> \o decodeLog[1].input

(* C19: for every string S without sector markers, decoding S and decoding *)
(* '@A' + S return the same wagons in the same order: same type, number,   *)
(* classes, attributes, status codes and no-passage flags.  Stated for the *)
(* strings S without a fictitious marker 'F'.                              *)
C19_SameWagonsWithAndWithoutMarker ==
  BothDecoded /\ ~Includes(decodeLog[1].input, <<"F">>)
    => WagonsOf(decodeLog[1].output) = WagonsOf(decodeLog[2].output)

ParsedWagons ==
  IF Trim(formationString) = <<>> THEN <<>>
  ELSE Flatten(assembleSections(formationString))

NextToLocomotive(i) ==
  \/ IsLocomotive(AllWagons[i])
  \/ i > 1 /\ IsLocomotive(AllWagons[i - 1])
  \/ i < Len(AllWagons) /\ IsLocomotive(AllWagons[i + 1])

(* C21: a wagon that got the message 'No passage to the neighbouring coach *)
(* possible' during group decoding still carries it after finalization,    *)
(* unless it is a locomotive or stands next to one (whose messages the     *)
(* pairwise pass clears): the per-wagon default does not replace it.       *)
C21_GroupMessageKept ==
  Decoded => \A i \in Wagons :
    ParsedWagons[i].noAccessMessage = NEIGHBOUR_MESSAGE /\ ~NextToLocomotive(i)
      => AllWagons[i].noAccessMessage = NEIGHBOUR_MESSAGE

(***************************************************************************)
(* Properties of the service classes of C:N tokens                         *)
(***************************************************************************)
(* token is C:N or C:N#offers, C a class digit and N one to three digits.  *)
IsClassOrdinalToken(token) ==
  /\ Len(token) >= 3
  /\ token[1] \in {"1", "2"}
  /\ token[2] = ":"
  /\ LET n == RunLength(token, 2, Digits)
     IN  /\ n \in 1..3
         /\ \/ Len(token) = 2 + n
            \/ /\ Len(token) > 3 + n
               /\ token[3 + n] = "#"
               /\ \A k \in (4 + n)..Len(token) : token[k] \in OfferChars

(* C22 as claimed: a wagon decoded from a token C:N or C:N#offers has      *)
(* classes exactly [C].                                                    *)
C22_ClassOrdinalGivesClass ==
  Decoded => \A i \in Wagons :
    IsClassOrdinalToken(AllWagons[i].raw)
      => AllWagons[i].classes = <<AllWagons[i].raw[1]>>

(* C22: a wagon decoded from a token C:N or C:N#offers has classes exactly *)
(* [C] when the token contains neither FA nor FZ, and exactly ['2'] when   *)
(* it does.                                                                *)
C22_ClassOrdinalGivesClassUnlessFamily ==
  Decoded => \A i \in Wagons :
    IsClassOrdinalToken(AllWagons[i].raw)
      => AllWagons[i].classes =
           IF HasFamilyPattern(AllWagons[i].raw)
             THEN <<"2">> ELSE <<AllWagons[i].raw[1]>>

(* '2:12' is decoded: the ordinal holds the digit of the other class. *)
C22_Witness ==
  /\ Decoded
  /\ \E i \in Wagons :
       /\ IsClassOrdinalToken(AllWagons[i].raw)
       /\ AllWagons[i].raw = <<"2", ":", "1", "2">>
       /\ AllWagons[i].classes = <<"2">>

(***************************************************************************)
(* Properties of the wagon type                                            *)
(***************************************************************************)
(* The token without its leading status characters and without one         *)
(* surrounding bracket and parenthesis.                                    *)
CleanedToken(token) ==
  LET unmarked ==
        IF StartsWith(token, <<"-">>) THEN SubstringFrom(token, 1)
        ELSE SubstringFrom(token, LeadingStatusChars(token, 0))
  IN  StripEnd(StripStart(StripEnd(StripStart(unmarked, "["), "]"), "("), ")")

TypeCodes == {WAGON_TYPE_MAPPING[k].code : k \in 1..Len(WAGON_TYPE_MAPPING)}

TypesOfCodes(codes) ==
  {WAGON_TYPE_MAPPING[k].type :
     k \in {j \in 1..Len(WAGON_TYPE_MAPPING) : WAGON_TYPE_MAPPING[j].code \in codes}}

Longest(codes) == {c \in codes : \A d \in codes : Len(d) <= Len(c)}

AnchoringCodes(token) ==
  {c \in TypeCodes :
     /\ StartsWith(token, c)
     /\ Len(token) = Len(c) \/ token[Len(c) + 1] \in {":", "#", ","}}

OccurringCodes(token) == {c \in TypeCodes : Includes(token, c)}

(* C23: the type of a wagon is that of the longest known code its cleaned  *)
(* token begins with, followed by ':', '#', ',' or the end of the token,   *)
(* whatever codes occur later in the token; when no code anchors, that of  *)
(* a longest code the token contains; when none occurs, 'wagon'.           *)
C23_TypeByAnchoredThenLongestCode ==
  Decoded => \A i \in Wagons :
    LET token == CleanedToken(AllWagons[i].raw)
    IN  IF AnchoringCodes(token) # {}
          THEN AllWagons[i].type \in TypesOfCodes(Longest(AnchoringCodes(token)))
        ELSE IF OccurringCodes(token) # {}
          THEN AllWagons[i].type \in TypesOfCodes(Longest(OccurringCodes(token)))
        ELSE AllWagons[i].type = "wagon"

(* '2:12' is second-class although it contains the longer code 12. *)
C23_Witness ==
  /\ Decoded
  /\ \E i \in Wagons :
       /\ AllWagons[i].raw = <<"2", ":", "1", "2">>
       /\ AllWagons[i].type = "second-class"

(***************************************************************************)
(* Properties of the implicit restaurant attribute                         *)
(***************************************************************************)
(* C24: a wagon whose token matches W1, W2 or WR has the attribute WR      *)
(* exactly when the token contains no '%'.                                 *)
C24_RestaurantAttributeUnlessUnserviced ==
  Decoded => \A i \in Wagons :
    RESTAURANT_WAGON_REGEX(AllWagons[i].raw)
      => (HasAttribute(AllWagons[i].attributes, <<"W", "R">>)
            <=> ~Includes(AllWagons[i].raw, <<"%">>))

(***************************************************************************)
(* Properties of the bracket extractor and of the bracket loop             *)
(***************************************************************************)
(* Opening minus closing brackets among the characters p..q (0-based). *)
DepthBetween(str, p, q) ==
  Cardinality({i \in p..q : CharAt(str, i) = "["})
    - Cardinality({i \in p..q : CharAt(str, i) = "]"})

(* The text strictly between the first '[' of str and its matching ']',    *)
(* Null when str has no '[' or its first '[' is never closed.              *)
MatchedContent(str) ==
  LET p == IndexOf(str, <<"[">>)
      closes == {q \in (p + 1)..(Len(str) - 1) : DepthBetween(str, p, q) = 0}
  IN  IF p = -1 \/ closes = {} THEN Null
      ELSE Substring(str, p + 1, Least(closes))

(* No ']' without an earlier '[' of its own, and no '[' left open. *)
Balanced(str) ==
  /\ \A q \in 0..(Len(str) - 1) : DepthBetween(str, 0, q) >= 0
  /\ DepthBetween(str, 0, Len(str) - 1) = 0

(* C25: extractBracketContent returns the text strictly between the first  *)
(* top-level '[' and its matching ']', and null when there is no '[' or    *)
(* the brackets are unbalanced. Either reading of "unbalanced" is          *)
(* accepted: the first '[' is never closed, or str as a whole is not       *)
(* balanced.                                                               *)
C25_ExtractsFirstMatchedGroup ==
  [][pc = "draining"
       => \/ loopBracketContent' = MatchedContent(loopSegment)
          \/ ~Balanced(loopSegment) /\ loopBracketContent' = Null]_vars

(* C26: every iteration of the bracket loop that extracted a group removes *)
(* at least one '[' and one ']' from the segment, and the loop is left for *)
(* every segment, with nested, stray or unbalanced brackets too.           *)
C26_BracketLoopTerminates ==
  /\ [][loopBracketContent' # Null /\ pc = "draining"
          => /\ Len(loopSegment') <= Len(loopSegment) - 2
             /\ Occurrences(loopSegment', <<"[">>) < Occurrences(loopSegment, <<"[">>)
             /\ Occurrences(loopSegment', <<"]">>) < Occurrences(loopSegment, <<"]">>)]_vars
  /\ (pc = "draining") ~> (pc = "processed")

(* The loop was left after draining a nested group of a segment that also  *)
(* holds a stray bracket.                                                  *)
C26_Witness ==
  /\ pc = "processed"
  /\ Includes(formationString, <<"[", "[">>)
  /\ Occurrences(formationString, <<"[">>) # Occurrences(formationString, <<"]">>)
  /\ Len(loopSegment) < Len(formationString)
  /\ sections # <<>>

(* C27: in the decoded section list, every wagon's sector field is the     *)
(* sector of the section that holds the wagon.                             *)
C27_WagonSectorIsSectionSector ==
  Decoded =>
    \A s \in 1..Len(sections) :
      \A w \in 1..Len(sections[s].wagons) :
        sections[s].wagons[w].sector = sections[s].sector

(* A decoded list with a section in sector A followed by one in sector B,  *)
(* each holding a wagon.                                                   *)
C27_Witness ==
  /\ Decoded
  /\ Len(sections) >= 2
  /\ sections[1].sector = "A" /\ sections[2].sector = "B"
  /\ Len(sections[1].wagons) >= 1 /\ Len(sections[2].wagons) >= 1

(***************************************************************************)
(* Properties of the HTTP interceptors                                     *)
(***************************************************************************)
LastError(request) == request.errors[Len(request.errors)]

(* C28: a request is re-issued only after an error with status 500, 502,   *)
(* 503 or 504 and at most 3 times; after an error with another status, or  *)
(* after the error that follows the third re-issue, it has failed with the *)
(* ApiError formatted from that error.                                     *)
C28_RetriesOnlyServerErrorsThrice ==
  \A i \in 1..Len(requests) :
    LET request == requests[i]
    IN  /\ request.reissues <= 3
        /\ request.reissues <= Len(request.errors)
        /\ \A k \in 1..request.reissues :
             request.errors[k] \in {500, 502, 503, 504}
        /\ request.phase = "waiting"
             => /\ LastError(request) \in {500, 502, 503, 504}
                /\ request.reissues = Len(request.errors) - 1
                /\ request.reissues < 3
        /\ request.errors # <<>>
             /\ (LastError(request) \notin {500, 502, 503, 504}
                   \/ Len(request.errors) = 4)
             => /\ request.phase = "failed"
                /\ request.apiError = formatError(LastError(request))
                /\ request.apiError.statusCode =
                     IF LastError(request) = 0 THEN 500 ELSE LastError(request)
        /\ request.phase = "failed"
             => LastError(request) \notin {500, 502, 503, 504}
                  \/ request.reissues = 3

(* A request failed after three re-issues, another after a 429 without one. *)
C28_Witness ==
  \E i, j \in 1..Len(requests) :
    /\ requests[i].phase = "failed" /\ requests[i].reissues = 3
    /\ requests[j].phase = "failed" /\ requests[j].reissues = 0
    /\ LastError(requests[j]) = 429

(* The requests started and not yet succeeded, failed or cancelled. *)
NotCompleted ==
  {i \in 1..Len(requests) : requests[i].phase \in {"inFlight", "waiting"}}

(* The requests none of whose attempts has ended. *)
NeverFinalized ==
  {i \in 1..Len(requests) :
     requests[i].phase = "inFlight" /\ requests[i].errors = <<>>}

(* C29: loadingCount never goes below zero and is the number of requests   *)
(* started and not yet completed, and loading is true exactly when         *)
(* loadingCount > 0. A request between two attempts may be counted as      *)
(* completed or not: either count is accepted.                             *)
C29_LoadingCountsOpenRequests ==
  /\ loadingCount >= 0
  /\ \/ loadingCount = Cardinality(NotCompleted)
     \/ loadingCount = Cardinality(NeverFinalized)
  /\ loading <=> loadingCount > 0

(***************************************************************************)
(* Properties of the stop selection                                        *)
(***************************************************************************)
NoBlankStop(response) == \A i \in 1..Len(response) : Trim(response[i]) # <<>>

(* C30: once every occupancy lookup started by updateSelectedStop calls on *)
(* the stored response has completed, the current stop index and the       *)
(* published formation are those of the index selected last. The stored    *)
(* response has no blank stop, so the index names the same stop in the     *)
(* response and in the published stop list.                                *)
C30_LastSelectedStopIsShown ==
  /\ pending = <<>>
  /\ selectedStop >= 0
  /\ NoBlankStop(lastApiResponse)
  => /\ currentStopIndex = selectedStop
     /\ currentFormation.currentStop = selectedStop + 1
     /\ currentFormation.sections
          = parseFormationString(lastApiResponse[selectedStop + 1])

====
